---- MODULE Spec2Model ----
(***************************************************************************)
(* Model of the resume screening system: the scoring engine               *)
(* (src/scoring_engine.py), the extractor (src/nlp_extractor.py), the      *)
(* resume processor (src/resume_processor.py) and the session of the       *)
(* application (src/app.py).                                               *)
(*                                                                         *)
(* Numbers that the program holds as Python floats are modelled as exact   *)
(* rationals <<n, d>> with d > 0, kept in lowest terms.  Strings that the  *)
(* program takes apart (skill names, document texts) are sequences of      *)
(* one-character strings.                                                  *)
(***************************************************************************)
EXTENDS Integers, Sequences, FiniteSets, TLC

VARIABLES
    weights,    \* ScoringEngine.weights: skills / experience / education
    nonneg,     \* history: the weights in force were set by __init__ or by an
                \* adjust_weights call whose three arguments were >= 0
    call,       \* the last call made, its arguments and its result
    nlp,        \* NLPExtractor.nlp: the entity recognizer, or "None"
    processed_resumes,  \* st.session_state.processed_resumes
    session_job_requirements    \* st.session_state.job_requirements

\* what the engine's operations leave alone: the extractor and the session
app == <<nlp, processed_resumes, session_job_requirements>>

vars == <<weights, nonneg, call, nlp, processed_resumes, session_job_requirements>>

(***************************************************************************)
(* Bounds of the model.                                                    *)
(***************************************************************************)
MaxWeightArg == 1   \* adjust_weights arguments range over -1 .. MaxWeightArg
MaxYears == 7       \* a job's required years range over 0 .. MaxYears
MaxResumeYears == 2 \* a scored resume's years range over 0 .. MaxResumeYears
MaxSkills == 2      \* _score_skills is applied to resumes of 0 .. MaxSkills skills
MaxRequired == 2    \* ... and to jobs of 0 .. MaxRequired required skills
MaxBatch == 3       \* batch_score_resumes takes lists of 0 .. MaxBatch resumes

(***************************************************************************)
(* Exact rational arithmetic.                                              *)
(***************************************************************************)
Abs(i) == IF i < 0 THEN -i ELSE i

RECURSIVE GCD(_, _)
GCD(a, b) == IF b = 0 THEN a ELSE GCD(b, a % b)

Frac(n, d) ==
    LET s == IF d < 0 THEN -1 ELSE 1
        g == GCD(Abs(n), Abs(d))
    IN  <<(s * n) \div g, (s * d) \div g>>

Whole(i) == <<i, 1>>
RAdd(p, q) == Frac(p[1] * q[2] + q[1] * p[2], p[2] * q[2])
RSub(p, q) == Frac(p[1] * q[2] - q[1] * p[2], p[2] * q[2])
RMul(p, q) == Frac(p[1] * q[1], p[2] * q[2])
RDiv(p, q) == Frac(p[1] * q[2], p[2] * q[1])
RLe(p, q) == p[1] * q[2] <= q[1] * p[2]
RLt(p, q) == p[1] * q[2] < q[1] * p[2]
RMin(p, q) == IF RLe(p, q) THEN p ELSE q
RMax(p, q) == IF RLe(q, p) THEN p ELSE q

\* Python's round(x, 1): the nearest multiple of 1/10, a tie going to the
\* even multiple.
Round1(q) ==
    LET n == 10 * q[1]
        f == n \div q[2]
        r == n % q[2]
        t == IF 2 * r < q[2] THEN f
             ELSE IF 2 * r > q[2] THEN f + 1
             ELSE IF f % 2 = 0 THEN f ELSE f + 1
    IN  Frac(t, 10)

(***************************************************************************)
(* Strings as sequences of characters: str.lower, str.title, the `in` test *)
(* on strings and set(str).                                                *)
(***************************************************************************)
UpperLetters ==
    <<"A", "B", "C", "D", "E", "F", "G", "H", "I", "J", "K", "L", "M",
      "N", "O", "P", "Q", "R", "S", "T", "U", "V", "W", "X", "Y", "Z">>
LowerLetters ==
    <<"a", "b", "c", "d", "e", "f", "g", "h", "i", "j", "k", "l", "m",
      "n", "o", "p", "q", "r", "s", "t", "u", "v", "w", "x", "y", "z">>

Range(f) == {f[i] : i \in DOMAIN f}

UpperSet == Range(UpperLetters)
LowerSet == Range(LowerLetters)
ToLower == [c \in UpperSet |->
               LowerLetters[CHOOSE i \in DOMAIN UpperLetters : UpperLetters[i] = c]]
ToUpper == [c \in LowerSet |->
               UpperLetters[CHOOSE i \in DOMAIN LowerLetters : LowerLetters[i] = c]]

IsLetter(c) == c \in UpperSet \/ c \in LowerSet
LowerChar(c) == IF c \in UpperSet THEN ToLower[c] ELSE c
UpperChar(c) == IF c \in LowerSet THEN ToUpper[c] ELSE c

\* str.lower()
Lower(s) == [i \in 1 .. Len(s) |-> LowerChar(s[i])]

\* str.title(): a letter that follows no letter is upper-cased, every other
\* letter is lower-cased.
Title(s) ==
    [i \in 1 .. Len(s) |->
        IF i = 1 \/ ~IsLetter(s[i - 1]) THEN UpperChar(s[i]) ELSE LowerChar(s[i])]

\* t in s, for strings
Contains(s, t) ==
    \E i \in 0 .. (Len(s) - Len(t)) : SubSeq(s, i + 1, i + Len(t)) = t

\* set(s)
CharSet(s) == Range(s)

\* [skill.lower() for skill in skills]
LowerAll(skills) == [i \in 1 .. Len(skills) |-> Lower(skills[i])]

(***************************************************************************)
(* The character sequence of a string: the model takes strings apart as    *)
(* sequences of one-character strings.                                     *)
(***************************************************************************)
Chars(name) == [i \in 1 .. Len(name) |-> SubSeq(name, i, i)]

(***************************************************************************)
(* ScoringEngine.__init__                                                  *)
(***************************************************************************)
DefaultWeights ==
    [skills |-> Frac(5, 10), experience |-> Frac(3, 10), education |-> Frac(2, 10)]

(***************************************************************************)
(* ScoringEngine._skills_similarity                                        *)
(***************************************************************************)
tech_families ==
    << <<"javascript", <<"js", "node.js", "nodejs", "react", "angular", "vue">> >>,
       <<"python", <<"django", "flask", "pandas", "numpy", "tensorflow">> >>,
       <<"java", <<"spring", "hibernate", "maven", "gradle">> >>,
       <<"database", <<"sql", "mysql", "postgresql", "oracle", "mongodb">> >>,
       <<"cloud", <<"aws", "azure", "gcp", "docker", "kubernetes">> >> >>

InRelated(skill, related_skills) ==
    \E i \in DOMAIN related_skills : Chars(related_skills[i]) = skill

\* _skills_similarity with the containment test made in one direction only
_skills_similarity_one_way(skill1, skill2) ==
    LET skill1_lower == Lower(skill1)
        skill2_lower == Lower(skill2)
        common_chars == CharSet(skill1_lower) \cap CharSet(skill2_lower)
        total_chars == CharSet(skill1_lower) \cup CharSet(skill2_lower)
    IN  IF skill1_lower = skill2_lower THEN Frac(10, 10)
        ELSE IF Contains(skill2_lower, skill1_lower) THEN Frac(8, 10)
        ELSE IF Cardinality(total_chars) > 0
        THEN Frac(Cardinality(common_chars), Cardinality(total_chars))
        ELSE Frac(0, 10)

\* _skills_similarity with the family test made before the containment test
_skills_similarity_family_first(skill1, skill2) ==
    LET skill1_lower == Lower(skill1)
        skill2_lower == Lower(skill2)
        common_chars == CharSet(skill1_lower) \cap CharSet(skill2_lower)
        total_chars == CharSet(skill1_lower) \cup CharSet(skill2_lower)
    IN  IF skill1_lower = skill2_lower THEN Frac(10, 10)
        ELSE IF \E f \in DOMAIN tech_families :
                    LET family == Chars(tech_families[f][1])
                        related_skills == tech_families[f][2]
                    IN  \/ skill1_lower = family /\ InRelated(skill2_lower, related_skills)
                        \/ skill2_lower = family /\ InRelated(skill1_lower, related_skills)
                        \/ InRelated(skill1_lower, related_skills)
                           /\ InRelated(skill2_lower, related_skills)
        THEN Frac(7, 10)
        ELSE IF Contains(skill2_lower, skill1_lower) \/ Contains(skill1_lower, skill2_lower)
        THEN Frac(8, 10)
        ELSE IF Cardinality(total_chars) > 0
        THEN Frac(Cardinality(common_chars), Cardinality(total_chars))
        ELSE Frac(0, 10)

\* _skills_similarity with the character ratio kept below the family rule
_skills_similarity_capped(skill1, skill2) ==
    LET skill1_lower == Lower(skill1)
        skill2_lower == Lower(skill2)
        common_chars == CharSet(skill1_lower) \cap CharSet(skill2_lower)
        total_chars == CharSet(skill1_lower) \cup CharSet(skill2_lower)
    IN  IF skill1_lower = skill2_lower THEN Frac(10, 10)
        ELSE IF Contains(skill2_lower, skill1_lower) \/ Contains(skill1_lower, skill2_lower)
        THEN Frac(8, 10)
        ELSE IF \E f \in DOMAIN tech_families :
                    LET family == Chars(tech_families[f][1])
                        related_skills == tech_families[f][2]
                    IN  \/ skill1_lower = family /\ InRelated(skill2_lower, related_skills)
                        \/ skill2_lower = family /\ InRelated(skill1_lower, related_skills)
                        \/ InRelated(skill1_lower, related_skills)
                           /\ InRelated(skill2_lower, related_skills)
        THEN Frac(7, 10)
        ELSE IF Cardinality(total_chars) > 0
        THEN RMin(Frac(Cardinality(common_chars), Cardinality(total_chars)), Frac(6, 10))
        ELSE Frac(0, 10)

_skills_similarity(skill1, skill2) ==
    LET skill1_lower == Lower(skill1)
        skill2_lower == Lower(skill2)
        common_chars == CharSet(skill1_lower) \cap CharSet(skill2_lower)
        total_chars == CharSet(skill1_lower) \cup CharSet(skill2_lower)
    IN  IF skill1_lower = skill2_lower THEN Frac(10, 10)
        ELSE IF Contains(skill2_lower, skill1_lower) \/ Contains(skill1_lower, skill2_lower)
        THEN Frac(8, 10)
        ELSE IF \E f \in DOMAIN tech_families :
                    LET family == Chars(tech_families[f][1])
                        related_skills == tech_families[f][2]
                    IN  \/ skill1_lower = family /\ InRelated(skill2_lower, related_skills)
                        \/ skill2_lower = family /\ InRelated(skill1_lower, related_skills)
                        \/ InRelated(skill1_lower, related_skills)
                           /\ InRelated(skill2_lower, related_skills)
        THEN Frac(7, 10)
        ELSE IF Cardinality(total_chars) > 0
        THEN Frac(Cardinality(common_chars), Cardinality(total_chars))
        ELSE Frac(0, 10)

\* a threshold that a similarity of 0.7 reaches
Similar_from_0_7(req_skill, resume_skill) ==
    RLe(Frac(7, 10), _skills_similarity(req_skill, resume_skill))

\* the threshold of the fuzzy match: similarity > 0.7
Similar(req_skill, resume_skill) ==
    RLt(Frac(7, 10), _skills_similarity(req_skill, resume_skill))

(***************************************************************************)
(* ScoringEngine._score_skills                                             *)
(***************************************************************************)
\* the inner loop without its break: 0.8 for every similar resume skill
_score_skills_no_break(resume_data, job_requirements) ==
    LET resume_skills == LowerAll(resume_data.skills)
        required_skills == LowerAll(job_requirements.required_skills)
        n == Len(required_skills)
        exact_matches ==
            Cardinality({i \in 1 .. n : required_skills[i] \in Range(resume_skills)})
        fuzzy_matches ==
            RMul(Frac(8, 10),
                 Whole(Cardinality({p \in (1 .. n) \X (1 .. Len(resume_skills)) :
                     /\ required_skills[p[1]] \notin Range(resume_skills)
                     /\ Similar(required_skills[p[1]], resume_skills[p[2]])})))
        combined_score ==
            RMin(RAdd(RMul(Frac(exact_matches, n), Whole(100)),
                      RMul(RMul(RDiv(fuzzy_matches, Whole(n)), Whole(100)), Frac(5, 10))),
                 Whole(100))
        skill_bonus ==
            IF Len(resume_skills) > 10
            THEN RMin(Whole(Len(resume_skills) * 2), Whole(20))
            ELSE Whole(0)
    IN  IF n = 0 THEN Whole(80)
        ELSE RMin(RAdd(combined_score, skill_bonus), Whole(100))

\* the exact matches counted against the length of the resume's list
_score_skills_per_resume_skill(resume_data, job_requirements) ==
    LET resume_skills == LowerAll(resume_data.skills)
        required_skills == LowerAll(job_requirements.required_skills)
        n == Len(required_skills)
        exact_matches ==
            Cardinality({i \in 1 .. n : required_skills[i] \in Range(resume_skills)})
        skill_bonus ==
            IF Len(resume_skills) > 10
            THEN RMin(Whole(Len(resume_skills) * 2), Whole(20))
            ELSE Whole(0)
    IN  IF n = 0 THEN Whole(80)
        ELSE IF resume_skills = <<>> THEN Whole(0)
        ELSE RMin(RAdd(RMin(RMul(Frac(exact_matches, Len(resume_skills)), Whole(100)),
                            Whole(100)),
                       skill_bonus),
                  Whole(100))

_score_skills(resume_data, job_requirements) ==
    LET resume_skills == LowerAll(resume_data.skills)
        required_skills == LowerAll(job_requirements.required_skills)
        n == Len(required_skills)
        exact_matches ==
            Cardinality({i \in 1 .. n : required_skills[i] \in Range(resume_skills)})
        exact_match_score == RMul(Frac(exact_matches, n), Whole(100))
        \* 0.8 for every required skill that is absent and has a similar resume skill
        fuzzy_matches ==
            RMul(Frac(8, 10),
                 Whole(Cardinality({i \in 1 .. n :
                     /\ required_skills[i] \notin Range(resume_skills)
                     /\ \E j \in 1 .. Len(resume_skills) :
                            Similar(required_skills[i], resume_skills[j])})))
        fuzzy_match_score == RMul(RDiv(fuzzy_matches, Whole(n)), Whole(100))
        combined_score ==
            RMin(RAdd(exact_match_score, RMul(fuzzy_match_score, Frac(5, 10))), Whole(100))
        skill_bonus ==
            IF Len(resume_skills) > 10
            THEN RMin(Whole(Len(resume_skills) * 2), Whole(20))
            ELSE Whole(0)
    IN  IF n = 0 THEN Whole(80)
        ELSE RMin(RAdd(combined_score, skill_bonus), Whole(100))

(***************************************************************************)
(* ScoringEngine._score_experience                                         *)
(*                                                                         *)
(* experience_years is a rational, or NotANumber for a value float()       *)
(* rejects with ValueError.                                                *)
(***************************************************************************)
NotANumber == <<0, 0>>
IsNumber(v) == v[2] # 0

\* the bonus for exceeding added without the cap at 100
_score_experience_uncapped(resume_data, job_requirements) ==
    LET resume_experience == resume_data.experience_years
        required_experience == job_requirements.experience_years
    IN  IF required_experience = Whole(0) THEN Whole(100)
        ELSE IF RLe(required_experience, resume_experience)
        THEN RAdd(Whole(100),
                  RMin(RMul(RSub(resume_experience, required_experience), Whole(5)),
                       Whole(20)))
        ELSE RMax(RMul(RDiv(resume_experience, required_experience), Whole(80)), Whole(10))

_score_experience(resume_data, job_requirements) ==
    LET resume_experience == resume_data.experience_years
        required_experience == job_requirements.experience_years
    IN  IF required_experience = Whole(0) THEN Whole(100)
        ELSE IF RLe(required_experience, resume_experience)
        THEN LET base_score == Whole(100)
                 bonus == RMin(RMul(RSub(resume_experience, required_experience), Whole(5)),
                               Whole(20))
             IN  RMin(RAdd(base_score, bonus), Whole(100))
        ELSE LET ratio == RDiv(resume_experience, required_experience)
             IN  RMax(RMul(ratio, Whole(80)), Whole(10))

(***************************************************************************)
(* ScoringEngine._score_education                                          *)
(***************************************************************************)
\* the levels numbered from 0, as _load_education_keywords numbers them
education_levels_from_0(label) ==
    CASE label = "High School" -> 0
      [] label = "Certificate/Diploma" -> 1
      [] label = "Bachelor's Degree" -> 2
      [] label = "Master's Degree" -> 3
      [] label = "PhD" -> 4
      [] OTHER -> 1

education_levels(label) ==
    CASE label = "High School" -> 1
      [] label = "Certificate/Diploma" -> 2
      [] label = "Bachelor's Degree" -> 3
      [] label = "Master's Degree" -> 4
      [] label = "PhD" -> 5
      [] OTHER -> 1

_score_education(resume_data, job_requirements) ==
    LET resume_level == education_levels(resume_data.education)
        required_level == education_levels(job_requirements.education_level)
    IN  IF resume_level >= required_level
        THEN LET base_score == Whole(100)
                 bonus == RMax(Whole((resume_level - required_level) * 10), Whole(0))
             IN  RMin(RAdd(base_score, bonus), Whole(100))
        ELSE LET ratio == Frac(resume_level, required_level)
             IN  RMax(RMul(ratio, Whole(70)), Whole(30))

(***************************************************************************)
(* ScoringEngine._analyze_skills                                           *)
(***************************************************************************)
RECURSIVE Concat(_)
Concat(seqs) == IF seqs = <<>> THEN <<>> ELSE Head(seqs) \o Concat(Tail(seqs))

\* the first resume skill similar to req_skill (the inner loop with its break),
\* 0 when there is none
FirstSimilar(req_skill, resume_skills) ==
    LET found == {j \in 1 .. Len(resume_skills) : Similar(req_skill, resume_skills[j])}
    IN  IF found = {} THEN 0 ELSE CHOOSE j \in found : \A k \in found : j <= k

\* _analyze_skills without the break of line 191: one matched entry for every
\* similar resume skill
_analyze_skills_no_break(resume_data, job_requirements) ==
    LET resume_skills == LowerAll(resume_data.skills)
        required_skills == LowerAll(job_requirements.required_skills)
        Entries(req_skill) ==
            Concat([j \in 1 .. Len(resume_skills) |->
                IF Similar(req_skill, resume_skills[j])
                THEN <<Title(resume_skills[j]) \o Chars(" (similar to ")
                       \o Title(req_skill) \o Chars(")")>>
                ELSE <<>>])
    IN  [matched |->
            Concat([i \in 1 .. Len(required_skills) |->
                IF required_skills[i] \in Range(resume_skills)
                THEN <<Title(required_skills[i])>>
                ELSE Entries(required_skills[i])]),
         missing |->
            Concat([i \in 1 .. Len(required_skills) |->
                IF required_skills[i] \notin Range(resume_skills)
                   /\ Entries(required_skills[i]) = <<>>
                THEN <<Title(required_skills[i])>>
                ELSE <<>>]),
         additional |-> <<>>]

_analyze_skills(resume_data, job_requirements) ==
    LET resume_skills == LowerAll(resume_data.skills)
        required_skills == LowerAll(job_requirements.required_skills)
        similar == [i \in 1 .. Len(required_skills) |->
                       FirstSimilar(required_skills[i], resume_skills)]
        matched_skills ==
            Concat([i \in 1 .. Len(required_skills) |->
                IF required_skills[i] \in Range(resume_skills)
                THEN <<Title(required_skills[i])>>
                ELSE IF similar[i] # 0
                THEN <<Title(resume_skills[similar[i]]) \o Chars(" (similar to ")
                       \o Title(required_skills[i]) \o Chars(")")>>
                ELSE <<>>])
        missing_skills ==
            Concat([i \in 1 .. Len(required_skills) |->
                IF required_skills[i] \notin Range(resume_skills) /\ similar[i] = 0
                THEN <<Title(required_skills[i])>>
                ELSE <<>>])
        additional_skills ==
            Concat([j \in 1 .. Len(resume_skills) |->
                IF /\ resume_skills[j] \notin Range(required_skills)
                   /\ \A i \in 1 .. Len(required_skills) :
                          ~Similar(resume_skills[j], required_skills[i])
                THEN <<Title(resume_skills[j])>>
                ELSE <<>>])
    IN  [matched |-> matched_skills,
         missing |-> missing_skills,
         additional |-> SubSeq(additional_skills, 1,
                               IF Len(additional_skills) < 20
                               THEN Len(additional_skills) ELSE 20)]

(***************************************************************************)
(* ScoringEngine._generate_recommendation (the labels without their        *)
(* leading colour symbol)                                                  *)
(***************************************************************************)
_generate_recommendation(total_score) ==
    IF RLe(Whole(85), total_score) THEN "Strong Match - Highly Recommended"
    ELSE IF RLe(Whole(70), total_score) THEN "Good Match - Recommended"
    ELSE IF RLe(Whole(55), total_score) THEN "Fair Match - Consider with reservations"
    ELSE IF RLe(Whole(40), total_score) THEN "Poor Match - Not recommended"
    ELSE "Very Poor Match - Reject"

(***************************************************************************)
(* ScoringEngine.score_resume, for an engine whose weights are w.  The     *)
(* result is the returned dictionary, or ValueError when float() rejects   *)
(* an experience_years value.                                              *)
(***************************************************************************)
ValueError == [exception |-> "ValueError"]

\* a total that takes the experience weight for education and the education
\* weight for experience
WeightedTotalSwapped(w, skills_score, experience_score, education_score) ==
    RAdd(RAdd(RMul(skills_score, w.skills), RMul(experience_score, w.education)),
         RMul(education_score, w.experience))

\* the weighted total of lines 33-37
WeightedTotal(w, skills_score, experience_score, education_score) ==
    RAdd(RAdd(RMul(skills_score, w.skills), RMul(experience_score, w.experience)),
         RMul(education_score, w.education))

score_resume(w, resume_data, job_requirements) ==
    IF ~IsNumber(resume_data.experience_years)
       \/ ~IsNumber(job_requirements.experience_years)
    THEN ValueError
    ELSE
    LET skills_score == _score_skills(resume_data, job_requirements)
        experience_score == _score_experience(resume_data, job_requirements)
        education_score == _score_education(resume_data, job_requirements)
        total_score == WeightedTotal(w, skills_score, experience_score, education_score)
        skill_analysis == _analyze_skills(resume_data, job_requirements)
    IN  [total_score |-> Round1(total_score),
         skills_score |-> Round1(skills_score),
         experience_score |-> Round1(experience_score),
         education_score |-> Round1(education_score),
         matched_skills |-> skill_analysis.matched,
         missing_skills |-> skill_analysis.missing,
         additional_skills |-> skill_analysis.additional,
         recommendation |-> _generate_recommendation(total_score)]

(***************************************************************************)
(* ScoringEngine.adjust_weights: the weights the engine holds after the    *)
(* call, given the weights w it held before.                               *)
(***************************************************************************)
\* the weights stored as given, without the division by their sum
adjust_weights_raw(w, skills_weight, experience_weight, education_weight) ==
    LET total == skills_weight + experience_weight + education_weight
    IN  IF total > 0
        THEN [skills     |-> Whole(skills_weight),
              experience |-> Whole(experience_weight),
              education  |-> Whole(education_weight)]
        ELSE w

\* a sum that is not positive puts the default weights back
adjust_weights_resets(w, skills_weight, experience_weight, education_weight) ==
    LET total == skills_weight + experience_weight + education_weight
    IN  IF total > 0
        THEN [skills     |-> Frac(skills_weight, total),
              experience |-> Frac(experience_weight, total),
              education  |-> Frac(education_weight, total)]
        ELSE DefaultWeights

\* adjust_weights with a test of the sign of its arguments
adjust_weights_checked(w, skills_weight, experience_weight, education_weight) ==
    LET total == skills_weight + experience_weight + education_weight
    IN  IF total > 0 /\ skills_weight >= 0 /\ experience_weight >= 0 /\ education_weight >= 0
        THEN [skills     |-> Frac(skills_weight, total),
              experience |-> Frac(experience_weight, total),
              education  |-> Frac(education_weight, total)]
        ELSE w

adjust_weights(w, skills_weight, experience_weight, education_weight) ==
    LET total == skills_weight + experience_weight + education_weight
    IN  IF total > 0
        THEN [skills     |-> Frac(skills_weight, total),
              experience |-> Frac(experience_weight, total),
              education  |-> Frac(education_weight, total)]
        ELSE w

(***************************************************************************)
(* ScoringEngine.batch_score_resumes                                       *)
(***************************************************************************)
\* list.sort(key = total_score, reverse = True): stable, so records of equal
\* total_score keep the order they had
\* a sort that leaves the list as it was built
SortSkipped(records) == records

RECURSIVE SortByTotalDesc(_)
SortByTotalDesc(records) ==
    IF records = <<>> THEN <<>>
    ELSE LET last == records[Len(records)]
             front == SortByTotalDesc(SubSeq(records, 1, Len(records) - 1))
             \* last goes behind every record whose total_score is >= its own
             k == Cardinality({i \in 1 .. Len(front) :
                                  RLe(last.total_score, front[i].total_score)})
         IN  SubSeq(front, 1, k) \o <<last>> \o SubSeq(front, k + 1, Len(front))

\* a batch without the try/except: the first failure ends the loop
batch_aborts(w, resumes, job_requirements) ==
    LET failed == {i \in 1 .. Len(resumes) :
                      score_resume(w, resumes[i], job_requirements) = ValueError}
        stop == IF failed = {} THEN Len(resumes) + 1
                ELSE CHOOSE i \in failed : \A k \in failed : i <= k
    IN  SortByTotalDesc([i \in 1 .. (stop - 1) |->
            score_resume(w, resumes[i], job_requirements) @@ resumes[i]])

batch_score_resumes(w, resumes, job_requirements) ==
    LET score_data == [i \in 1 .. Len(resumes) |->
                          score_resume(w, resumes[i], job_requirements)]
        scored_resumes ==
            Concat([i \in 1 .. Len(resumes) |->
                IF score_data[i] = ValueError
                THEN <<>>                                  \* reported, then continue
                ELSE <<score_data[i] @@ resumes[i]>>])     \* {**resume, **score_data}
    IN  SortByTotalDesc(scored_resumes)

(***************************************************************************)
(* create_sample_job_requirements (utils.py) and the initialisation of the *)
(* session state (app.py): no record, the sample job profile, and no       *)
(* extractor constructed yet.                                              *)
(***************************************************************************)
create_sample_job_requirements ==
    [job_title |-> "Software Engineer",
     required_skills |->
        <<Chars("python"), Chars("javascript"), Chars("sql"), Chars("git"),
          Chars("react"), Chars("django"), Chars("flask"), Chars("html"),
          Chars("css"), Chars("rest api"), Chars("json"), Chars("agile"),
          Chars("problem solving"), Chars("communication"), Chars("teamwork"),
          Chars("linux"), Chars("aws"), Chars("docker")>>,
     experience_years |-> Whole(3),
     education_level |-> "Bachelor's Degree"]

NotConstructed == "not constructed"

SessionStart ==
    /\ nlp = NotConstructed
    /\ processed_resumes = <<>>
    /\ session_job_requirements = create_sample_job_requirements

(***************************************************************************)
(* The inputs of the calls.                                                *)
(***************************************************************************)
WeightArgs == (-1) .. MaxWeightArg

Years == {Whole(y) : y \in 0 .. MaxYears}

\* the labels _extract_education produces
ResumeEducation ==
    {"Not specified", "High School", "Certificate/Diploma", "Bachelor's Degree",
     "Master's Degree", "PhD"}
\* the labels of education_levels
JobEducation ==
    {"High School", "Certificate/Diploma", "Bachelor's Degree", "Master's Degree", "PhD"}

ResumeSkillLists ==
    {<<>>,
     <<Chars("Python"), Chars("Mysql")>>}
RequiredSkillLists ==
    {<<>>,
     <<Chars("python")>>,
     <<Chars("python"), Chars("sql"), Chars("git")>>}

Resumes ==
    [skills : ResumeSkillLists,
     experience_years : {Whole(y) : y \in 0 .. MaxResumeYears},
     education : {"Not specified", "Bachelor's Degree"}]
Jobs ==
    [required_skills : RequiredSkillLists,
     experience_years : Years,
     education_level : {"High School", "PhD"}]

\* a resume whose experience_years float() rejects
BadResume ==
    [skills |-> <<Chars("Python")>>, experience_years |-> NotANumber,
     education |-> "PhD"]

\* the resumes and the job of the batches
BatchPool ==
    {[skills |-> <<Chars("Python"), Chars("Sql")>>, experience_years |-> Whole(3),
      education |-> "Bachelor's Degree"],
     [skills |-> <<Chars("Python")>>, experience_years |-> Whole(1),
      education |-> "Not specified"],
     [skills |-> <<>>, experience_years |-> Whole(0), education |-> "High School"],
     BadResume}
BatchJob ==
    [required_skills |-> <<Chars("python"), Chars("sql")>>,
     experience_years |-> Whole(3), education_level |-> "Bachelor's Degree"]

\* the lists of at most n elements of S
RECURSIVE SeqsUpTo(_, _)
SeqsUpTo(S, n) ==
    IF n = 0 THEN {<<>>}
    ELSE SeqsUpTo(S, n - 1) \cup {Append(q, x) : q \in {t \in SeqsUpTo(S, n - 1) : Len(t) = n - 1}, x \in S}

(***************************************************************************)
(* The engine: one action per public operation.  A call is made when no    *)
(* call is in progress; call holds it until Return.                        *)
(***************************************************************************)
NoCall == [fn |-> "none"]

AdjustWeights ==
    /\ call = NoCall
    /\ \E s \in WeightArgs, e \in WeightArgs, d \in WeightArgs :
        /\ weights' = adjust_weights(weights, s, e, d)
        /\ nonneg' = IF s + e + d > 0 THEN s >= 0 /\ e >= 0 /\ d >= 0 ELSE nonneg
        /\ call' = [fn |-> "adjust_weights", args |-> <<s, e, d>>]
    /\ UNCHANGED app

ScoreResume ==
    /\ call = NoCall
    /\ \E resume \in Resumes \cup {BadResume}, job \in Jobs :
        call' = [fn |-> "score_resume", resume |-> resume, job |-> job,
                 ret |-> score_resume(weights, resume, job)]
    /\ UNCHANGED <<weights, nonneg, app>>

BatchScoreResumes ==
    /\ call = NoCall
    /\ \E resumes \in SeqsUpTo(BatchPool, MaxBatch) :
        call' = [fn |-> "batch_score_resumes", resumes |-> resumes, job |-> BatchJob,
                 ret |-> batch_score_resumes(weights, resumes, BatchJob)]
    /\ UNCHANGED <<weights, nonneg, app>>

Return ==
    /\ call # NoCall
    /\ call' = NoCall
    /\ UNCHANGED <<weights, nonneg, app>>

Init ==
    /\ weights = DefaultWeights
    /\ nonneg = TRUE
    /\ SessionStart
    /\ call = NoCall

Next == AdjustWeights \/ ScoreResume \/ BatchScoreResumes \/ Return

Spec == Init /\ [][Next]_vars

(***************************************************************************)
(* The component scores as functions: a call is drawn with its arguments   *)
(* and evaluated once.                                                     *)
(***************************************************************************)
\* years as _extract_experience_years reports them: whole and half years
HalfYears == {Frac(h, 2) : h \in 0 .. (2 * MaxYears)}

\* ten skills: a resume that starts with them has more than 10 skills as soon
\* as it has one more
TenSkills ==
    <<Chars("aws"), Chars("azure"), Chars("gcp"), Chars("docker"), Chars("kubernetes"),
      Chars("react"), Chars("angular"), Chars("vue"), Chars("spring"), Chars("maven")>>

ResumeSkillPool ==
    {Chars("Python"), Chars("Mysql"), Chars("Postgresql"), Chars("Django"), Chars("Slack")}
RequiredSkillPool == {Chars("python"), Chars("sql"), Chars("scala")}

SkillsCalls ==
    {[fn |-> "_score_skills", resume_data |-> [skills |-> pre \o cs],
      job_requirements |-> [required_skills |-> rs], done |-> FALSE, ret |-> <<>>] :
        pre \in {<<>>, TenSkills},
        cs \in SeqsUpTo(ResumeSkillPool, MaxSkills),
        rs \in SeqsUpTo(RequiredSkillPool, MaxRequired)}
ExperienceCalls ==
    {[fn |-> "_score_experience", resume_data |-> [experience_years |-> c],
      job_requirements |-> [experience_years |-> r], done |-> FALSE, ret |-> <<>>] :
        c \in HalfYears, r \in Years}
EducationCalls ==
    {[fn |-> "_score_education", resume_data |-> [education |-> c],
      job_requirements |-> [education_level |-> r], done |-> FALSE, ret |-> <<>>] :
        c \in ResumeEducation, r \in JobEducation}

Eval_score_skills ==
    /\ call.fn = "_score_skills" /\ ~call.done
    /\ call' = [call EXCEPT !.done = TRUE,
                            !.ret = _score_skills(call.resume_data, call.job_requirements)]
    /\ UNCHANGED <<weights, nonneg, app>>

Eval_score_experience ==
    /\ call.fn = "_score_experience" /\ ~call.done
    /\ call' = [call EXCEPT !.done = TRUE,
                            !.ret = _score_experience(call.resume_data, call.job_requirements)]
    /\ UNCHANGED <<weights, nonneg, app>>

Eval_score_education ==
    /\ call.fn = "_score_education" /\ ~call.done
    /\ call' = [call EXCEPT !.done = TRUE,
                            !.ret = _score_education(call.resume_data, call.job_requirements)]
    /\ UNCHANGED <<weights, nonneg, app>>

InitPure ==
    /\ weights = DefaultWeights
    /\ nonneg = TRUE
    /\ SessionStart
    /\ call \in SkillsCalls \cup ExperienceCalls \cup EducationCalls

NextPure == Eval_score_skills \/ Eval_score_experience \/ Eval_score_education

SpecPure == InitPure /\ [][NextPure]_vars

(***************************************************************************)
(* Properties of batch_score_resumes.                                      *)
(***************************************************************************)
IsBatch == call.fn = "batch_score_resumes"

\* C1: the list batch_score_resumes returns is ordered by total_score
\* descending: every record's total_score is >= that of the record after it.
C1_BatchSortedDescending ==
    IsBatch =>
        \A i \in 1 .. (Len(call.ret) - 1) :
            RLe(call.ret[i + 1].total_score, call.ret[i].total_score)

\* a batch of three scored resumes given lowest first comes back highest first
C1_Witness ==
    /\ IsBatch
    /\ Len(call.ret) = 3
    /\ RLt(call.ret[3].total_score, call.ret[2].total_score)
    /\ RLt(call.ret[2].total_score, call.ret[1].total_score)
    /\ [f \in DOMAIN call.resumes[1] |-> call.ret[3][f]] = call.resumes[1]

Count(list, P(_)) == Cardinality({i \in 1 .. Len(list) : P(list[i])})
Fails(resume) == score_resume(weights, resume, call.job) = ValueError

\* C2: a candidate whose scoring raises is left out and the batch goes on: the
\* output holds exactly one scored record for every candidate whose scoring
\* succeeded, wherever the failing candidates stand in the input.
C2_BatchIsolatesFailures ==
    IsBatch =>
        LET score == [r \in Range(call.resumes) |-> score_resume(weights, r, call.job)]
            Succeeds(r) == score[r] # ValueError
        IN  /\ Len(call.ret) = Count(call.resumes, Succeeds)
            /\ \A r \in Range(call.resumes) :
                  LET IsRecordOf(record) == record = score[r] @@ r
                      Is(x) == x = r
                  IN  Count(call.ret, IsRecordOf)
                        = IF Succeeds(r) THEN Count(call.resumes, Is) ELSE 0

\* a batch whose first candidate fails and whose two later ones are scored
C2_Witness ==
    /\ IsBatch
    /\ Len(call.resumes) = 3
    /\ Fails(call.resumes[1])
    /\ Len(call.ret) = 2

(***************************************************************************)
(* Properties of score_resume.                                             *)
(***************************************************************************)
IsScored == call.fn = "score_resume" /\ call.ret # ValueError

\* the weighted sum of three scores under the engine's current weights
Weighted(skills_score, experience_score, education_score) ==
    RAdd(RMul(weights.skills, skills_score),
         RAdd(RMul(weights.experience, experience_score),
              RMul(weights.education, education_score)))

ReportedSum ==
    Weighted(call.ret.skills_score, call.ret.experience_score, call.ret.education_score)
UnroundedSum ==
    Weighted(_score_skills(call.resume, call.job),
             _score_experience(call.resume, call.job),
             _score_education(call.resume, call.job))

\* q is x rounded to one decimal: a multiple of 1/10 at most 1/20 away from x
IsRounded1(q, x) ==
    /\ (10 * q[1]) % q[2] = 0
    /\ RLe(RSub(q, x), Frac(1, 20))
    /\ RLe(RSub(x, q), Frac(1, 20))

\* C3 as claimed: the reported total_score is the weighted sum of the record's
\* reported skills_score, experience_score and education_score under the
\* engine's current weights, rounded to one decimal.
C3_TotalOfReportedScores ==
    IsScored => IsRounded1(call.ret.total_score, ReportedSum)

\* C3 as amended: the reported total_score is the weighted sum of the three
\* component scores as computed, before their rounding, rounded to one decimal;
\* under non-negative weights it is within 0.1 of the weighted sum of the
\* reported component scores.
C3_TotalOfComputedScores ==
    IsScored =>
        /\ IsRounded1(call.ret.total_score, UnroundedSum)
        /\ nonneg =>
              /\ RLe(RSub(call.ret.total_score, ReportedSum), Frac(1, 10))
              /\ RLe(RSub(ReportedSum, call.ret.total_score), Frac(1, 10))

\* a record whose component scores were changed by their rounding, so that the
\* reported total is no rounding of the total of the reported scores
C3_Witness ==
    /\ IsScored
    /\ nonneg
    /\ call.ret.experience_score # _score_experience(call.resume, call.job)
    /\ ~IsRounded1(call.ret.total_score, ReportedSum)

\* the band of a score
Band(score) ==
    IF RLe(Whole(85), score) THEN "Strong Match - Highly Recommended"
    ELSE IF RLe(Whole(70), score) /\ RLt(score, Whole(85)) THEN "Good Match - Recommended"
    ELSE IF RLe(Whole(55), score) /\ RLt(score, Whole(70))
    THEN "Fair Match - Consider with reservations"
    ELSE IF RLe(Whole(40), score) /\ RLt(score, Whole(55))
    THEN "Poor Match - Not recommended"
    ELSE "Very Poor Match - Reject"

\* C4: the recommendation of a record is the band of the record's reported
\* total_score (Strong >= 85, Good in [70, 85), Fair in [55, 70), Poor in
\* [40, 55), Very Poor below).
C4_RecommendationOfReportedTotal ==
    IsScored => call.ret.recommendation = Band(call.ret.total_score)

InRange(score) == RLe(Whole(0), score) /\ RLe(score, Whole(100))

\* C5: for non-negative years, after any adjust_weights calls with non-negative
\* arguments, score_resume reports total_score, skills_score, experience_score
\* and education_score each within [0, 100].
C5_ScoresWithinRange ==
    (IsScored /\ nonneg) =>
        /\ InRange(call.ret.total_score)
        /\ InRange(call.ret.skills_score)
        /\ InRange(call.ret.experience_score)
        /\ InRange(call.ret.education_score)

\* after an adjustment, a record that reports the top total and a component at
\* its floor
C5_Witness ==
    /\ IsScored
    /\ nonneg
    /\ weights # DefaultWeights
    /\ call.ret.total_score = Whole(100)
    /\ call.ret.experience_score = Whole(10)

(***************************************************************************)
(* Properties of adjust_weights.                                           *)
(***************************************************************************)
IsAdjusted == call.fn = "adjust_weights"
ArgSum(args) == args[1] + args[2] + args[3]

WeightsNormalised ==
    /\ nonneg =>
          /\ \A k \in DOMAIN weights : RLe(Whole(0), weights[k]) /\ RLe(weights[k], Whole(1))
          /\ RAdd(weights.skills, RAdd(weights.experience, weights.education)) = Whole(1)
    /\ (IsAdjusted /\ ArgSum(call.args) > 0) =>
          /\ weights.skills = RDiv(Whole(call.args[1]), Whole(ArgSum(call.args)))
          /\ weights.experience = RDiv(Whole(call.args[2]), Whole(ArgSum(call.args)))
          /\ weights.education = RDiv(Whole(call.args[3]), Whole(ArgSum(call.args)))

\* C6: the weights start at {0.5, 0.3, 0.2}; after any adjust_weights calls with
\* non-negative arguments each weight is in [0, 1] and the three sum to 1; a
\* call whose arguments sum to a positive number sets each weight to its
\* argument divided by that sum.
C6_WeightsStartDefaultStayNormalised ==
    /\ weights = [skills |-> <<1, 2>>, experience |-> <<3, 10>>, education |-> <<1, 5>>]
    /\ []WeightsNormalised

\* adjust_weights(1, 1, 1) has given one third each
C6_Witness ==
    /\ IsAdjusted
    /\ call.args = <<1, 1, 1>>
    /\ weights = [skills |-> <<1, 3>>, experience |-> <<1, 3>>, education |-> <<1, 3>>]

\* C7: adjust_weights with arguments whose sum is 0 is a no-op: the weights
\* after the call are the weights before it.
C7_ZeroSumKeepsWeights ==
    [][(call'.fn = "adjust_weights" /\ ArgSum(call'.args) = 0) => weights' = weights]_vars

\* a zero-sum call, of arguments not all 0, made on adjusted weights
C7_Witness ==
    /\ IsAdjusted
    /\ ArgSum(call.args) = 0
    /\ call.args # <<0, 0, 0>>
    /\ weights # DefaultWeights

(***************************************************************************)
(* Properties of the component scores (SpecPure).                          *)
(***************************************************************************)
Evaluated(fn) == call.fn = fn /\ call.done

\* C8: the experience score is 100 when the job requires 0 years; it is exactly
\* 100 for every candidate whose years are >= a positive required value; for a
\* candidate with fewer years c than the required r > 0 it is max(80*c/r, 10),
\* which lies in [10, 80).
C8_ExperienceScore ==
    Evaluated("_score_experience") =>
        LET c == call.resume_data.experience_years
            r == call.job_requirements.experience_years
        IN  /\ r = Whole(0) => call.ret = Whole(100)
            /\ (RLt(Whole(0), r) /\ RLe(r, c)) => call.ret = Whole(100)
            /\ (RLt(Whole(0), r) /\ RLt(c, r)) =>
                  /\ call.ret = RMax(Frac(80 * c[1] * r[2], c[2] * r[1]), Whole(10))
                  /\ RLe(Whole(10), call.ret)
                  /\ RLt(call.ret, Whole(80))

\* a candidate with more years than a positive requirement scores 100
C8_Witness ==
    /\ Evaluated("_score_experience")
    /\ RLt(Whole(0), call.job_requirements.experience_years)
    /\ RLt(call.job_requirements.experience_years, call.resume_data.experience_years)
    /\ call.ret = Whole(100)

\* the levels the claim gives the five labels
LevelOf(label) ==
    CASE label = "High School" -> 1
      [] label = "Certificate/Diploma" -> 2
      [] label = "Bachelor's Degree" -> 3
      [] label = "Master's Degree" -> 4
      [] label = "PhD" -> 5

\* C9: with High School = 1, Certificate/Diploma = 2, Bachelor's Degree = 3,
\* Master's Degree = 4, PhD = 5, the education score is exactly 100 when the
\* candidate's level is >= the required level, and
\* max(70 * candidateLevel / requiredLevel, 30) when it is lower.
C9_EducationScore ==
    (Evaluated("_score_education") /\ call.resume_data.education \in JobEducation) =>
        LET c == LevelOf(call.resume_data.education)
            r == LevelOf(call.job_requirements.education_level)
        IN  call.ret = IF c >= r THEN Whole(100)
                       ELSE RMax(Frac(70 * c, r), Whole(30))

\* a Bachelor's Degree against a required PhD scores 70 * 3 / 5 = 42
C9_Witness ==
    /\ Evaluated("_score_education")
    /\ call.resume_data.education = "Bachelor's Degree"
    /\ call.job_requirements.education_level = "PhD"
    /\ call.ret = Whole(42)

\* C10: the skills score is 80 when the job has no required skills; otherwise,
\* with n required skills, E of them equal (case-insensitively) to a candidate
\* skill and F of the others having at least one candidate skill of similarity
\* > 0.7, it is min(min(100*E/n + 0.5*100*0.8*F/n, 100) + bonus, 100), where
\* bonus = min(2*k, 20) if the candidate has k > 10 skills and 0 otherwise.
EqualSkill(req, cand) == \E j \in DOMAIN cand : Lower(cand[j]) = Lower(req)
SimilarSkills(req, cand) ==
    {j \in DOMAIN cand : RLt(Frac(7, 10), _skills_similarity(req, cand[j]))}

C10_SkillsScore ==
    Evaluated("_score_skills") =>
        LET cand == call.resume_data.skills
            req == call.job_requirements.required_skills
            n == Len(req)
            k == Len(cand)
            E == Cardinality({i \in 1 .. n : EqualSkill(req[i], cand)})
            F == Cardinality({i \in 1 .. n :
                     ~EqualSkill(req[i], cand) /\ SimilarSkills(req[i], cand) # {}})
            bonus == IF k > 10 THEN RMin(Whole(2 * k), Whole(20)) ELSE Whole(0)
        IN  call.ret =
                IF n = 0 THEN Whole(80)
                ELSE RMin(RAdd(RMin(Frac(100 * E + 40 * F, n), Whole(100)), bonus),
                          Whole(100))

\* a candidate of more than 10 skills, two of them similar to the one required
\* skill: one credit and the bonus, 40 + 20
C10_Witness ==
    /\ Evaluated("_score_skills")
    /\ Len(call.resume_data.skills) > 10
    /\ Len(call.job_requirements.required_skills) = 1
    /\ ~EqualSkill(call.job_requirements.required_skills[1], call.resume_data.skills)
    /\ Cardinality(SimilarSkills(call.job_requirements.required_skills[1],
                                 call.resume_data.skills)) = 2
    /\ call.ret = Whole(60)

(***************************************************************************)
(* _analyze_skills and _skills_similarity as functions: a call is drawn    *)
(* with its arguments and evaluated once.                                  *)
(***************************************************************************)
MaxNameLen == 2     \* skill strings over {a, b} have 0 .. MaxNameLen characters

\* the strings _skills_similarity is applied to: skill names, and every string
\* of at most MaxNameLen characters over a two-letter alphabet
SimilarityPool ==
    {Chars("python"), Chars("Python"), Chars("django"), Chars("flask"),
     Chars("sql"), Chars("mysql"), Chars("java"), Chars("javascript"),
     Chars("js"), Chars("git")}
    \cup SeqsUpTo({"a", "b"}, MaxNameLen)

SimilarityCalls ==
    {[fn |-> "_skills_similarity", skill1 |-> a, skill2 |-> b,
      done |-> FALSE, ret |-> <<>>] : a \in SimilarityPool, b \in SimilarityPool}
AnalysisCalls ==
    {[fn |-> "_analyze_skills", resume_data |-> [skills |-> cs],
      job_requirements |-> [required_skills |-> rs], done |-> FALSE, ret |-> <<>>] :
        cs \in SeqsUpTo(ResumeSkillPool, MaxSkills),
        rs \in SeqsUpTo(RequiredSkillPool, MaxRequired)}

\* _score_skills of one resume skill against one required skill
FuzzyCalls ==
    {[fn |-> "_score_skills", resume_data |-> [skills |-> <<b>>],
      job_requirements |-> [required_skills |-> <<a>>], done |-> FALSE, ret |-> <<>>] :
        a \in SimilarityPool, b \in SimilarityPool}

Eval_skills_similarity ==
    /\ call.fn = "_skills_similarity" /\ ~call.done
    /\ call' = [call EXCEPT !.done = TRUE,
                            !.ret = _skills_similarity(call.skill1, call.skill2)]
    /\ UNCHANGED <<weights, nonneg, app>>

Eval_analyze_skills ==
    /\ call.fn = "_analyze_skills" /\ ~call.done
    /\ call' = [call EXCEPT !.done = TRUE,
                            !.ret = _analyze_skills(call.resume_data, call.job_requirements)]
    /\ UNCHANGED <<weights, nonneg, app>>

InitSkills ==
    /\ weights = DefaultWeights
    /\ nonneg = TRUE
    /\ SessionStart
    /\ call \in SimilarityCalls \cup AnalysisCalls \cup FuzzyCalls

NextSkills == Eval_skills_similarity \/ Eval_analyze_skills \/ Eval_score_skills

SpecSkills == InitSkills /\ [][NextSkills]_vars

(***************************************************************************)
(* Properties of the skill analysis and of the similarity (SpecSkills).    *)
(***************************************************************************)
\* the entry a required skill gets: the list it goes to and the text listed
Classify(req, cand) ==
    IF EqualSkill(req, cand)
    THEN [list |-> "matched", text |-> Title(Lower(req))]
    ELSE IF SimilarSkills(req, cand) # {}
    THEN LET first == CHOOSE j \in SimilarSkills(req, cand) :
                          \A k \in SimilarSkills(req, cand) : j <= k
         IN  [list |-> "matched",
              text |-> Title(Lower(cand[first])) \o Chars(" (similar to ")
                       \o Title(Lower(req)) \o Chars(")")]
    ELSE [list |-> "missing", text |-> Title(Lower(req))]

\* the texts of the entries that go to one list, in the order of the entries
RECURSIVE Listed(_, _)
Listed(entries, list) ==
    IF entries = <<>> THEN <<>>
    ELSE (IF Head(entries).list = list THEN <<Head(entries).text>> ELSE <<>>)
         \o Listed(Tail(entries), list)

\* C11: every required skill is classified exactly once, in the order of the
\* required skills: in matched_skills under its own (title-cased) name when it
\* equals a candidate skill, in matched_skills as '<candidate skill> (similar
\* to <required skill>)' for the first candidate skill of similarity > 0.7 when
\* none equals it, in missing_skills otherwise; so the lengths of the two
\* lists add up to the number of required skills.
C11_RequiredSkillsClassifiedOnce ==
    Evaluated("_analyze_skills") =>
        LET cand == call.resume_data.skills
            req == call.job_requirements.required_skills
            entries == [i \in 1 .. Len(req) |-> Classify(req[i], cand)]
        IN  /\ call.ret.matched = Listed(entries, "matched")
            /\ call.ret.missing = Listed(entries, "missing")
            /\ Len(call.ret.matched) + Len(call.ret.missing) = Len(req)

\* 'sql' is matched through two similar candidate skills and listed once, for
\* the first of them, while 'scala' is missing
C11_Witness ==
    /\ Evaluated("_analyze_skills")
    /\ call.resume_data.skills = <<Chars("Postgresql"), Chars("Mysql")>>
    /\ call.job_requirements.required_skills = <<Chars("sql"), Chars("scala")>>
    /\ call.ret.matched =
          <<Chars("Postgresql") \o Chars(" (similar to ") \o Chars("Sql") \o Chars(")")>>
    /\ call.ret.missing = <<Chars("Scala")>>

\* C12: the similarity is symmetric, it is 1.0 of a non-empty string with
\* itself, and every result lies in [0, 1].
C12_SimilaritySymmetricReflexive ==
    Evaluated("_skills_similarity") =>
        /\ call.ret = _skills_similarity(call.skill2, call.skill1)
        /\ (call.skill1 = call.skill2 /\ call.skill1 # <<>>) => call.ret = Frac(10, 10)
        /\ RLe(Whole(0), call.ret) /\ RLe(call.ret, Whole(1))

\* two different strings, one containing the other, asked in the order in which
\* the second argument is the shorter one
C12_Witness ==
    /\ Evaluated("_skills_similarity")
    /\ call.skill1 = Chars("mysql")
    /\ call.skill2 = Chars("sql")
    /\ call.ret = Frac(8, 10)


\* the rules of the similarity, stated on lower-cased strings
Within(s, t) == \E i \in 1 .. Len(t) + 1, j \in 0 .. Len(t) : SubSeq(t, i, j) = s
OneContainsOther(a, b) == Within(a, b) \/ Within(b, a)
RelatedOf(f) == {Chars(tech_families[f][2][k]) : k \in DOMAIN tech_families[f][2]}
FamilyRelated(a, b) ==
    \E f \in DOMAIN tech_families :
        \/ a = Chars(tech_families[f][1]) /\ b \in RelatedOf(f)
        \/ b = Chars(tech_families[f][1]) /\ a \in RelatedOf(f)
        \/ a \in RelatedOf(f) /\ b \in RelatedOf(f)
CharsOf(a) == {a[i] : i \in DOMAIN a}
CharacterRatio(a, b) ==
    Frac(Cardinality(CharsOf(a) \cap CharsOf(b)), Cardinality(CharsOf(a) \cup CharsOf(b)))

\* C21: the rules of _skills_similarity are applied in order and the first
\* that matches decides: equal strings give 1.0; otherwise one string
\* containing the other gives 0.8; otherwise family membership gives 0.7;
\* otherwise the result is the number of characters common to both strings
\* divided by the number of distinct characters in either.
C21_FirstMatchingRuleDecides ==
    Evaluated("_skills_similarity") =>
        LET a == Lower(call.skill1)
            b == Lower(call.skill2)
        IN  call.ret = IF a = b THEN Whole(1)
                       ELSE IF OneContainsOther(a, b) THEN Frac(8, 10)
                       ELSE IF FamilyRelated(a, b) THEN Frac(7, 10)
                       ELSE CharacterRatio(a, b)

\* 'sql' and 'mysql' are in the same related list and one contains the other:
\* the containment rule, which comes first, decides
C21_Witness ==
    /\ Evaluated("_skills_similarity")
    /\ call.skill1 = Chars("sql")
    /\ call.skill2 = Chars("mysql")
    /\ FamilyRelated(call.skill1, call.skill2)
    /\ call.ret = Frac(8, 10)

\* related through the family table and through no stronger rule
OnlyFamilyRelated(a, b) == a # b /\ ~OneContainsOther(a, b) /\ FamilyRelated(a, b)

\* C26: a required skill related to the candidate's skills only through the
\* family table (similarity exactly 0.7) is not a fuzzy match: it earns no
\* credit in _score_skills and is listed in missing_skills by _analyze_skills.
C26_FamilyRelationIsNoFuzzyMatch ==
    /\ (Evaluated("_score_skills")
        /\ Len(call.resume_data.skills) = 1
        /\ Len(call.job_requirements.required_skills) = 1
        /\ OnlyFamilyRelated(Lower(call.job_requirements.required_skills[1]),
                             Lower(call.resume_data.skills[1])))
       => call.ret = Whole(0)
    /\ Evaluated("_analyze_skills") =>
        \A i \in DOMAIN call.job_requirements.required_skills :
            LET req == Lower(call.job_requirements.required_skills[i])
                cand == call.resume_data.skills
            IN  (/\ cand # <<>>
                 /\ \A j \in DOMAIN cand : OnlyFamilyRelated(req, Lower(cand[j])))
                => /\ \E m \in DOMAIN call.ret.missing : call.ret.missing[m] = Title(req)
                   /\ \A m \in DOMAIN call.ret.matched :
                        ~Within(Title(req), call.ret.matched[m])

\* required 'python' against a candidate whose only skill is 'Django'
C26_Witness ==
    /\ Evaluated("_analyze_skills")
    /\ call.resume_data.skills = <<Chars("Django")>>
    /\ call.job_requirements.required_skills = <<Chars("python")>>
    /\ _skills_similarity(Chars("python"), Chars("Django")) = Frac(7, 10)
    /\ call.ret.missing = <<Chars("Python")>>
    /\ call.ret.matched = <<>>

\* two different strings of the same characters, neither containing the other,
\* with no family relation
SameCharactersOnly(a, b) ==
    a # b /\ ~OneContainsOther(a, b) /\ ~FamilyRelated(a, b) /\ CharsOf(a) = CharsOf(b)

\* C27: the character-set fallback is not capped below the stronger rules:
\* two different strings that use the same set of characters, with neither
\* containing the other and no family relation, get similarity 1.0, so a
\* required skill is counted as a fuzzy match by any such candidate skill
\* (0.8 of a match, at half weight: 40 of 100 for one required skill).
C27_SameCharactersAreSimilar ==
    /\ (Evaluated("_skills_similarity")
        /\ SameCharactersOnly(Lower(call.skill1), Lower(call.skill2)))
       => call.ret = Whole(1)
    /\ (Evaluated("_score_skills")
        /\ Len(call.resume_data.skills) = 1
        /\ Len(call.job_requirements.required_skills) = 1
        /\ SameCharactersOnly(Lower(call.job_requirements.required_skills[1]),
                              Lower(call.resume_data.skills[1])))
       => call.ret = Whole(40)

\* required 'ab' against the candidate skill 'ba'
C27_Witness ==
    /\ Evaluated("_score_skills")
    /\ call.job_requirements.required_skills = << <<"a", "b">> >>
    /\ call.resume_data.skills = << <<"b", "a">> >>
    /\ call.ret = Whole(40)

(***************************************************************************)
(* Text: a str is the sequence of its characters.  The character classes   *)
(* of re and str on the characters the model uses.                         *)
(***************************************************************************)
Digits == {"0", "1", "2", "3", "4", "5", "6", "7", "8", "9"}
Letters == UpperSet \cup LowerSet
\* \s, and the characters str.strip() and str.split() take for white space
Whitespace == {" ", "\n", "\t"}
\* \w
WordChars == Letters \cup Digits \cup {"_"}

IsSpace(c) == c \in Whitespace

\* the indices 1 .. n, in order
Indices(n) == [i \in 1 .. n |-> i]

\* text[:n]
Prefix(text, n) == SubSeq(text, 1, IF Len(text) < n THEN Len(text) ELSE n)

\* str.strip()
Strip(text) ==
    LET kept == {i \in 1 .. Len(text) : ~IsSpace(text[i])}
    IN  IF kept = {} THEN <<>>
        ELSE SubSeq(text, CHOOSE i \in kept : \A k \in kept : i <= k,
                          CHOOSE j \in kept : \A k \in kept : k <= j)

\* re.sub(r'\s+', ' ', text): every maximal run of white space becomes one space
CollapseWhitespace(text) ==
    LET StartsRun(i) == ~IsSpace(text[i]) \/ i = 1 \/ ~IsSpace(text[i - 1])
        kept == SelectSeq(Indices(Len(text)), StartsRun)
    IN  [k \in 1 .. Len(kept) |-> IF IsSpace(text[kept[k]]) THEN " " ELSE text[kept[k]]]

(***************************************************************************)
(* NLPExtractor._clean_text                                                *)
(***************************************************************************)
\* _clean_text without the strip() of line 94
_clean_text_no_strip(text) == CollapseWhitespace(text)

_clean_text(text) == Strip(CollapseWhitespace(text))

(***************************************************************************)
(* Regular expressions (module re).  A pattern is a tree:                  *)
(*   <<"set", S>>          one character of S            [...]  \d  \s  x  *)
(*   <<"nset", S>>         one character not in S        [^...]            *)
(*   <<"b">>               a word boundary               \b                *)
(*   <<"seq", <<r, ...>>>> r, then the next, ...         rs                *)
(*   <<"alt", <<r, ...>>>> the first alternative that leads to a match r|s *)
(*   <<"rep", r, m, n>>    m to n times r, greedy        r{m,n} r? r* r+   *)
(*   <<"grp", r>>          r as the capturing group      (r)               *)
(* (no pattern of the program has more than one capturing group).  Match   *)
(* lists the ways a pattern matches at an offset in the order in which the *)
(* backtracking matcher tries them; the first one is the match.  A way is  *)
(* <<end, g>>: the offset after the match and the span <<from, to>> of the *)
(* group, <<>> while the group has not taken part.                         *)
(***************************************************************************)
Many == -1      \* no upper limit on a repetition

Set(S) == <<"set", S>>
NotSet(S) == <<"nset", S>>
Boundary == <<"b">>
Cat(rs) == <<"seq", rs>>
Alt(rs) == <<"alt", rs>>
Rep(r, m, n) == <<"rep", r, m, n>>
Opt(r) == Rep(r, 0, 1)
Group(r) == <<"grp", r>>
\* a literal string
Lit(str) == Cat([i \in 1 .. Len(str) |-> Set({str[i]})])

IsWordAt(text, i) == 1 <= i /\ i <= Len(text) /\ text[i] \in WordChars

RECURSIVE Match(_, _, _, _)
RECURSIVE MatchEach(_, _, _)
RECURSIVE MatchSeq(_, _, _, _)
RECURSIVE MatchAlt(_, _, _, _, _)
RECURSIVE MatchRep(_, _, _, _, _, _)
RECURSIVE MatchRepEach(_, _, _, _, _)

\* the ways re matches from each of the ways in `from`, in their order
MatchEach(re, text, from) ==
    IF from = <<>> THEN <<>>
    ELSE Match(re, text, Head(from)[1], Head(from)[2]) \o MatchEach(re, text, Tail(from))

MatchSeq(rs, k, text, from) ==
    IF k > Len(rs) \/ from = <<>> THEN from
    ELSE MatchSeq(rs, k + 1, text, MatchEach(rs[k], text, from))

MatchAlt(rs, k, text, p, g) ==
    IF k > Len(rs) THEN <<>>
    ELSE Match(rs[k], text, p, g) \o MatchAlt(rs, k + 1, text, p, g)

MatchRepEach(r, m, n, text, from) ==
    IF from = <<>> THEN <<>>
    ELSE MatchRep(r, m, n, text, Head(from)[1], Head(from)[2])
         \o MatchRepEach(r, m, n, text, Tail(from))

\* greedy: one more r first, stopping here last
MatchRep(r, m, n, text, p, g) ==
    LET Advances(way) == way[1] > p
        once == IF n = 0 THEN <<>> ELSE SelectSeq(Match(r, text, p, g), Advances)
    IN  MatchRepEach(r, IF m > 0 THEN m - 1 ELSE 0, IF n > 0 THEN n - 1 ELSE n, text, once)
        \o (IF m <= 0 THEN << <<p, g>> >> ELSE <<>>)

Match(re, text, p, g) ==
    CASE re[1] = "set" ->
            IF p < Len(text) /\ text[p + 1] \in re[2] THEN << <<p + 1, g>> >> ELSE <<>>
      [] re[1] = "nset" ->
            IF p < Len(text) /\ text[p + 1] \notin re[2] THEN << <<p + 1, g>> >> ELSE <<>>
      [] re[1] = "b" ->
            IF IsWordAt(text, p) # IsWordAt(text, p + 1) THEN << <<p, g>> >> ELSE <<>>
      [] re[1] = "seq" -> MatchSeq(re[2], 1, text, << <<p, g>> >>)
      [] re[1] = "alt" -> MatchAlt(re[2], 1, text, p, g)
      [] re[1] = "rep" -> MatchRep(re[2], re[3], re[4], text, p, g)
      [] re[1] = "grp" ->
            LET ways == Match(re[2], text, p, g)
            IN  [k \in 1 .. Len(ways) |-> <<ways[k][1], <<p, ways[k][1]>> >>]

\* re.search from offset p: the leftmost match, [from, to, group], or NoMatch
NoMatch == [from |-> -1]

\* the match at offset p whose ways are `ways`
FirstWay(p, ways) == [from |-> p, to |-> ways[1][1], group |-> ways[1][2]]

\* the match at the least of the offsets `starts`
Leftmost(re, text, starts) ==
    IF starts = {} THEN NoMatch
    ELSE \* the set holds the match at the least offset alone
         CHOOSE m \in {FirstWay(q, Match(re, text, q, <<>>)) :
                          q \in {f \in starts : \A r \in starts : f <= r}} : TRUE

SearchFrom(re, text, p) ==
    Leftmost(re, text, {q \in p .. Len(text) : Match(re, text, q, <<>>) # <<>>})

\* the matches re.findall goes through: leftmost first, none overlapping
RECURSIVE Matches(_, _, _)
RECURSIVE MatchesFrom(_, _, _)
\* m and the matches after it
MatchesFrom(re, text, m) ==
    IF m = NoMatch THEN <<>>
    ELSE <<m>> \o Matches(re, text, IF m.to > m.from THEN m.to ELSE m.from + 1)

Matches(re, text, p) == MatchesFrom(re, text, SearchFrom(re, text, p))

\* the texts of the matches ms
MatchTexts(text, ms) == [k \in 1 .. Len(ms) |-> SubSeq(text, ms[k].from + 1, ms[k].to)]

\* the texts of the group in the matches ms, the empty string for a match in
\* which the group took no part
GroupTexts(text, ms) ==
    [k \in 1 .. Len(ms) |->
        IF ms[k].group = <<>> THEN <<>>
        ELSE SubSeq(text, ms[k].group[1] + 1, ms[k].group[2])]

\* re.findall of a pattern without a group
FindAll(re, text) == MatchTexts(text, Matches(re, text, 0))

\* re.findall of a pattern with one group
FindAllGroup(re, text) == GroupTexts(text, Matches(re, text, 0))

(***************************************************************************)
(* NLPExtractor._extract_email                                             *)
(***************************************************************************)
\* \b[A-Za-z0-9._%+-]+@[A-Za-z0-9.-]+\.[A-Z|a-z]{2,}\b
email_pattern ==
    Cat(<<Boundary,
          Rep(Set(Letters \cup Digits \cup {".", "_", "%", "+", "-"}), 1, Many),
          Set({"@"}),
          Rep(Set(Letters \cup Digits \cup {".", "-"}), 1, Many),
          Set({"."}),
          Rep(Set(Letters \cup {"|"}), 2, Many),
          Boundary>>)

_extract_email(text) ==
    LET emails == FindAll(email_pattern, text)
    IN  IF emails # <<>> THEN emails[1] ELSE Chars("Email not found")

(***************************************************************************)
(* NLPExtractor._extract_phone                                             *)
(***************************************************************************)
\* (\+\d{1,3}[-.\s]?)?
CountryCode ==
    Opt(Group(Cat(<<Set({"+"}), Rep(Set(Digits), 1, 3),
                    Opt(Set({"-", "."} \cup Whitespace))>>)))
\* [-.\s]?
Separator == Opt(Set({"-", "."} \cup Whitespace))

phone_patterns ==
    <<\* (\+\d{1,3}[-.\s]?)?\(?\d{3}\)?[-.\s]?\d{3}[-.\s]?\d{4}
      Cat(<<CountryCode, Opt(Set({"("})), Rep(Set(Digits), 3, 3), Opt(Set({")"})),
            Separator, Rep(Set(Digits), 3, 3), Separator, Rep(Set(Digits), 4, 4)>>),
      \* (\+\d{1,3}[-.\s]?)?\d{3}[-.\s]?\d{3}[-.\s]?\d{4}
      Cat(<<CountryCode, Rep(Set(Digits), 3, 3),
            Separator, Rep(Set(Digits), 3, 3), Separator, Rep(Set(Digits), 4, 4)>>),
      \* (\+\d{1,3}[-.\s]?)?\d{10}
      Cat(<<CountryCode, Rep(Set(Digits), 10, 10)>>)>>

\* the loop of lines 145-148: the first pattern that finds something decides,
\* and what it gives is the first element of findall's list, the text of the
\* pattern's group
RECURSIVE FirstPhone(_, _)
FirstPhone(k, text) ==
    IF k > Len(phone_patterns) THEN Chars("Phone not found")
    ELSE LET phones == FindAllGroup(phone_patterns[k], text)
         IN  IF phones # <<>> THEN phones[1] ELSE FirstPhone(k + 1, text)

_extract_phone(text) == FirstPhone(1, text)

(***************************************************************************)
(* NLPExtractor._extract_name_fallback                                     *)
(***************************************************************************)
\* str.split(sep): the pieces between the occurrences of the character sep
RECURSIVE SplitOn(_, _)
SplitOn(text, sep) ==
    LET at == {i \in 1 .. Len(text) : text[i] = sep}
    IN  IF at = {} THEN <<text>>
        ELSE LET first == CHOOSE i \in at : \A k \in at : i <= k
             IN  <<SubSeq(text, 1, first - 1)>>
                 \o SplitOn(SubSeq(text, first + 1, Len(text)), sep)

\* str.split(): the maximal runs of characters that are not white space
Words(text) ==
    LET StartsWord(i) == ~IsSpace(text[i]) /\ (i = 1 \/ IsSpace(text[i - 1]))
        EndOfWord(i) ==
            CHOOSE j \in i .. Len(text) :
                /\ \A k \in i .. j : ~IsSpace(text[k])
                /\ j = Len(text) \/ IsSpace(text[j + 1])
        starts == SelectSeq(Indices(Len(text)), StartsWord)
    IN  [k \in 1 .. Len(starts) |-> SubSeq(text, starts[k], EndOfWord(starts[k]))]

\* word.replace('.', '').replace(',', '').isalpha()
IsAlphaWord(word) ==
    LET NotPunctuation(c) == c \notin {".", ","}
        bare == SelectSeq(word, NotPunctuation)
    IN  bare # <<>> /\ \A i \in 1 .. Len(bare) : bare[i] \in Letters

\* a line that could be a name
IsNameLine(line) ==
    LET words == Words(line)
    IN  /\ 2 <= Len(words) /\ Len(words) <= 4
        /\ \A k \in 1 .. Len(words) : IsAlphaWord(words[k])
        /\ Len(line) < 50

_extract_name_fallback(text) ==
    LET all == SplitOn(text, "\n")
        lines == [k \in 1 .. (IF Len(all) < 5 THEN Len(all) ELSE 5) |-> Strip(all[k])]
        names == {k \in 1 .. Len(lines) : IsNameLine(lines[k])}
    IN  IF names = {} THEN Chars("Name not found")
        ELSE lines[CHOOSE k \in names : \A j \in names : k <= j]

(***************************************************************************)
(* The order of strings (list.sort): by the code points of the characters. *)
(***************************************************************************)
\* the characters of the model in the order of their code points
CodeOrder ==
    <<"\t", "\n", " ", "#", "%", "'", "(", ")", "+", ",", "-", ".", "/">>
    \o <<"0", "1", "2", "3", "4", "5", "6", "7", "8", "9">> \o <<":", "@">>
    \o UpperLetters \o <<"_">> \o LowerLetters \o <<"|">>
Ord == [c \in Range(CodeOrder) |-> CHOOSE i \in DOMAIN CodeOrder : CodeOrder[i] = c]

\* a < b for strings
StrLess(a, b) ==
    \E i \in 1 .. Len(b) :
        /\ \A k \in 1 .. (i - 1) : k <= Len(a) /\ a[k] = b[k]
        /\ i > Len(a) \/ (i <= Len(a) /\ Ord[a[i]] < Ord[b[i]])

\* sorted(S) for a set of strings
RECURSIVE Sorted(_)
Sorted(S) ==
    IF S = {} THEN <<>>
    ELSE LET least == CHOOSE a \in S : \A b \in S \ {a} : StrLess(a, b)
         IN  <<least>> \o Sorted(S \ {least})

\* list(set(xs))[:n]: the elements in an order the program does not fix, so
\* all of them as a set when there are at most n, and some n of them otherwise
AnyOf(S, n) == IF Cardinality(S) <= n THEN S ELSE [some |-> n, of |-> S]

(***************************************************************************)
(* NLPExtractor._load_skill_keywords, _extract_skills                      *)
(***************************************************************************)
\* the keywords, in the order of the list
skill_keywords ==
    <<
      \* Programming Languages
      "python", "java", "javascript", "typescript", "c++", "c#", "php", "ruby", "go", "rust",
      "swift", "kotlin", "scala", "r", "matlab", "perl", "shell", "bash", "powershell",
      \* Web Technologies
      "html", "css", "react", "angular", "vue", "node.js", "express", "django", "flask",
      "spring", "laravel", "rails", "asp.net", "jquery", "bootstrap", "sass", "less",
      \* Databases
      "sql", "mysql", "postgresql", "oracle", "mongodb", "redis", "elasticsearch",
      "cassandra", "dynamodb", "sqlite", "mariadb",
      \* Cloud & DevOps
      "aws", "azure", "gcp", "docker", "kubernetes", "jenkins", "git", "gitlab", "github",
      "terraform", "ansible", "chef", "puppet", "ci/cd", "devops",
      \* Data Science & ML
      "machine learning", "deep learning", "artificial intelligence", "data science",
      "pandas", "numpy", "scikit-learn", "tensorflow", "pytorch", "keras", "opencv",
      "nlp", "computer vision", "statistics", "data analysis", "big data", "hadoop", "spark",
      \* Mobile Development
      "android", "ios", "react native", "flutter", "xamarin", "cordova", "ionic",
      \* Other Technologies
      "microservices", "api", "rest", "graphql", "soap", "json", "xml", "agile", "scrum",
      "kanban", "jira", "confluence", "slack", "linux", "windows", "macos",
      \* Soft Skills
      "communication", "leadership", "teamwork", "problem solving", "analytical thinking",
      "project management", "time management", "adaptability", "creativity", "innovation">>

\* re.search(r'\b' + re.escape(word) + r'\b', text)
HasWord(text, word) ==
    \E p \in 0 .. (Len(text) - Len(word)) :
        /\ SubSeq(text, p + 1, p + Len(word)) = word
        /\ IsWordAt(text, p) # IsWordAt(text, p + 1)
        /\ IsWordAt(text, p + Len(word)) # IsWordAt(text, p + Len(word) + 1)

_extract_skills(text) ==
    LET text_lower == Lower(text)
        found_skills ==
            {Title(Chars(skill_keywords[k])) :
                k \in {j \in DOMAIN skill_keywords :
                          HasWord(text_lower, Lower(Chars(skill_keywords[j])))}}
        sorted == Sorted(found_skills)
    IN  SubSeq(sorted, 1, IF Len(sorted) < 50 THEN Len(sorted) ELSE 50)

(***************************************************************************)
(* NLPExtractor._extract_experience_years                                  *)
(***************************************************************************)
\* (\d+\.?\d*)
Number ==
    Group(Cat(<<Rep(Set(Digits), 1, Many), Opt(Set({"."})), Rep(Set(Digits), 0, Many)>>))
\* \s*  and  \s+
Spaces0 == Rep(Set(Whitespace), 0, Many)
Spaces1 == Rep(Set(Whitespace), 1, Many)
\* (?:\+\s*)?
PlusSign == Opt(Cat(<<Set({"+"}), Spaces0>>))
\* (?:years?|yrs?)
YearsWord ==
    Alt(<<Cat(<<Lit(Chars("year")), Opt(Set({"s"}))>>),
          Cat(<<Lit(Chars("yr")), Opt(Set({"s"}))>>)>>)

experience_patterns ==
    <<\* (\d+\.?\d*)\s*(?:\+\s*)?(?:years?|yrs?)\s+(?:of\s+)?experience
      Cat(<<Number, Spaces0, PlusSign, YearsWord, Spaces1,
            Opt(Cat(<<Lit(Chars("of")), Spaces1>>)), Lit(Chars("experience"))>>),
      \* (\d+\.?\d*)\s*(?:\+\s*)?(?:years?|yrs?)\s+(?:in|with|of)
      Cat(<<Number, Spaces0, PlusSign, YearsWord, Spaces1,
            Alt(<<Lit(Chars("in")), Lit(Chars("with")), Lit(Chars("of"))>>)>>),
      \* experience\s*:?\s*(\d+\.?\d*)\s*(?:\+\s*)?(?:years?|yrs?)
      Cat(<<Lit(Chars("experience")), Spaces0, Opt(Set({":"})), Spaces0,
            Number, Spaces0, PlusSign, YearsWord>>),
      \* (\d+\.?\d*)\s*(?:\+\s*)?(?:years?|yrs?)\s*(?:of\s+)?(?:professional\s+)?(?:work\s+)?experience
      Cat(<<Number, Spaces0, PlusSign, YearsWord, Spaces0,
            Opt(Cat(<<Lit(Chars("of")), Spaces1>>)),
            Opt(Cat(<<Lit(Chars("professional")), Spaces1>>)),
            Opt(Cat(<<Lit(Chars("work")), Spaces1>>)),
            Lit(Chars("experience"))>>)>>

DigitValue == [c \in Digits |-> CHOOSE v \in 0 .. 9 : CodeOrder[v + 14] = c]

RECURSIVE Pow10(_)
Pow10(k) == IF k = 0 THEN 1 ELSE 10 * Pow10(k - 1)

\* int() of a string of digits, 0 for the empty string
RECURSIVE DigitsValue(_)
DigitsValue(ds) ==
    IF ds = <<>> THEN 0
    ELSE 10 * DigitsValue(SubSeq(ds, 1, Len(ds) - 1)) + DigitValue[ds[Len(ds)]]

\* float() of what the group (\d+\.?\d*) matched
ParseFloat(match) ==
    LET dots == {i \in 1 .. Len(match) : match[i] = "."}
        dot == IF dots = {} THEN Len(match) + 1 ELSE CHOOSE i \in dots : TRUE
        whole == SubSeq(match, 1, dot - 1)
        decimals == SubSeq(match, dot + 1, Len(match))
    IN  Frac(DigitsValue(whole) * Pow10(Len(decimals)) + DigitsValue(decimals),
             Pow10(Len(decimals)))

job_indicators ==
    <<Chars("worked at"), Chars("employed at"), Chars("position at"),
      Chars("role at"), Chars("job at")>>

\* max() of a non-empty set of numbers
RMaxOf(S) == CHOOSE q \in S : \A r \in S : RLe(r, q)

RECURSIVE SumOf(_)
SumOf(counts) == IF counts = <<>> THEN 0 ELSE Head(counts) + SumOf(Tail(counts))

\* the numbers that match, whatever their size
_extract_experience_years_any_number(text) ==
    LET text_lower == Lower(text)
        matches == Concat([k \in DOMAIN experience_patterns |->
                              FindAllGroup(experience_patterns[k], text_lower)])
        years_found == {ParseFloat(matches[k]) : k \in DOMAIN matches}
        job_count == SumOf([k \in DOMAIN job_indicators |->
                               Len(FindAll(Lit(job_indicators[k]), text_lower))])
    IN  IF years_found # {} THEN RMaxOf(years_found)
        ELSE IF job_count > 0
        THEN Whole(IF job_count * 2 < 15 THEN job_count * 2 ELSE 15)
        ELSE Whole(0)

_extract_experience_years(text) ==
    LET text_lower == Lower(text)
        matches == Concat([k \in DOMAIN experience_patterns |->
                              FindAllGroup(experience_patterns[k], text_lower)])
        years_found ==
            {q \in {ParseFloat(matches[k]) : k \in DOMAIN matches} :
                RLe(Whole(0), q) /\ RLe(q, Whole(50))}
        \* str.count: the occurrences that do not overlap
        job_count == SumOf([k \in DOMAIN job_indicators |->
                               Len(FindAll(Lit(job_indicators[k]), text_lower))])
    IN  IF years_found # {} THEN RMaxOf(years_found)
        ELSE IF job_count > 0
        THEN Whole(IF job_count * 2 < 15 THEN job_count * 2 ELSE 15)
        ELSE Whole(0)

(***************************************************************************)
(* NLPExtractor._load_education_keywords, _extract_education,              *)
(* _format_education_level                                                 *)
(***************************************************************************)
education_keywords ==
    <<<<"phd", 4>>, <<"doctorate", 4>>, <<"ph.d", 4>>,
      <<"master", 3>>, <<"masters", 3>>, <<"mba", 3>>, <<"ms", 3>>, <<"ma", 3>>,
      <<"m.s", 3>>, <<"m.a", 3>>,
      <<"bachelor", 2>>, <<"bachelors", 2>>, <<"bs", 2>>, <<"ba", 2>>, <<"b.s", 2>>,
      <<"b.a", 2>>, <<"be", 2>>, <<"b.e", 2>>,
      <<"associate", 1>>, <<"diploma", 1>>, <<"certificate", 1>>,
      <<"high school", 0>>, <<"secondary", 0>>, <<"graduation", 0>>>>

_format_education_level(level) ==
    CASE level = 0 -> "High School"
      [] level = 1 -> "Certificate/Diploma"
      [] level = 2 -> "Bachelor's Degree"
      [] level = 3 -> "Master's Degree"
      [] level = 4 -> "PhD"
      [] OTHER -> "Not specified"

\* the loop of lines 211-215 from keyword k on
RECURSIVE HighestEducation(_, _, _, _)
HighestEducation(k, text_lower, highest_level, highest_education) ==
    IF k > Len(education_keywords) THEN highest_education
    ELSE LET education == Chars(education_keywords[k][1])
             level == education_keywords[k][2]
         IN  IF Contains(text_lower, education) /\ level > highest_level
             THEN HighestEducation(k + 1, text_lower, level, _format_education_level(level))
             ELSE HighestEducation(k + 1, text_lower, highest_level, highest_education)

_extract_education(text) == HighestEducation(1, Lower(text), 0, "Not specified")

(***************************************************************************)
(* NLPExtractor._extract_certifications                                    *)
(***************************************************************************)
\* a literal under re.IGNORECASE
LitI(str) == Cat([i \in 1 .. Len(str) |-> Set({LowerChar(str[i]), UpperChar(str[i])})])
\* ([^.\n]+)
ToEndOfSentence == Group(Rep(NotSet({".", "\n"}), 1, Many))

cert_patterns ==
    <<\* certified\s+in\s+([^.\n]+)
      Cat(<<LitI(Chars("certified")), Spaces1, LitI(Chars("in")), Spaces1,
            ToEndOfSentence>>),
      \* certification\s*:?\s*([^.\n]+)
      Cat(<<LitI(Chars("certification")), Spaces0, Opt(Set({":"})), Spaces0,
            ToEndOfSentence>>),
      \* cert\.\s*([^.\n]+)
      Cat(<<LitI(Chars("cert")), Set({"."}), Spaces0, ToEndOfSentence>>),
      \* ([A-Z]{2,}\s+certified)
      Group(Cat(<<Rep(Set(Letters), 2, Many), Spaces1, LitI(Chars("certified"))>>))>>

_extract_certifications(text) ==
    LET certifications == Concat([k \in DOMAIN cert_patterns |->
                                     FindAllGroup(cert_patterns[k], text)])
        cleaned_certs ==
            {cert \in {Strip(certifications[k]) : k \in DOMAIN certifications} :
                Len(cert) > 3 /\ Len(cert) < 100}
    IN  AnyOf(cleaned_certs, 10)

(***************************************************************************)
(* The entity recognizer (spaCy).  What a call self.nlp(text) gives is not *)
(* decided by the program: it raises, or it returns a document with its    *)
(* entities, each a text and a label.                                      *)
(***************************************************************************)
Raises == [raises |-> TRUE]
Doc(ents) == [raises |-> FALSE, ents |-> ents]

(***************************************************************************)
(* NLPExtractor._load_spacy_model: spacy.load gives the model or raises    *)
(* OSError.                                                                *)
(***************************************************************************)
\* _load_spacy_model without its except OSError: __init__ does not complete
_load_spacy_model_unguarded(outcome) ==
    IF outcome = "OSError" THEN NotConstructed ELSE "model"

_load_spacy_model(outcome) ==
    IF outcome = "OSError" THEN "None" ELSE "model"

(***************************************************************************)
(* NLPExtractor._extract_name, _extract_organizations                      *)
(***************************************************************************)
\* _extract_name giving up when the recognizer raises
_extract_name_no_fallback(text, recognizer, doc) ==
    IF recognizer = "None" THEN _extract_name_fallback(text)
    ELSE IF doc.raises THEN Chars("Name not found")
    ELSE LET persons == {k \in DOMAIN doc.ents :
                            /\ doc.ents[k].label_ = "PERSON"
                            /\ Len(Words(doc.ents[k].text)) >= 2}
         IN  IF persons # {}
             THEN Strip(doc.ents[CHOOSE k \in persons : \A j \in persons : k <= j].text)
             ELSE _extract_name_fallback(text)

\* doc: what self.nlp(text[:500]) gives, if it is called
_extract_name(text, recognizer, doc) ==
    IF recognizer = "None" THEN _extract_name_fallback(text)
    ELSE IF doc.raises THEN _extract_name_fallback(text)
    ELSE LET persons == {k \in DOMAIN doc.ents :
                            /\ doc.ents[k].label_ = "PERSON"
                            /\ Len(Words(doc.ents[k].text)) >= 2}
         IN  IF persons # {}
             THEN Strip(doc.ents[CHOOSE k \in persons : \A j \in persons : k <= j].text)
             ELSE _extract_name_fallback(text)

\* doc: what self.nlp(text) gives, if it is called
_extract_organizations(text, recognizer, doc) ==
    IF recognizer = "None" THEN {}
    ELSE IF doc.raises THEN {}
    ELSE LET organizations ==
                 {Strip(doc.ents[k].text) : k \in {j \in DOMAIN doc.ents :
                                                     doc.ents[j].label_ = "ORG"}}
         IN  AnyOf({org \in organizations : Len(org) > 2 /\ Len(org) < 100}, 20)

(***************************************************************************)
(* The texts of the documents of the model: a first line, a line of        *)
(* contact details and a body.                                             *)
(***************************************************************************)
FirstLines == {Chars("John Doe"), Chars("Resume")}
ContactLines ==
    {<<>>, Chars("555-123-4567"), Chars("+1 555-123-4567 john@x.org")}
Bodies ==
    {<<>>,
     Chars("5 years of experience in Python and SQL. Master of Science. Certified in Kubernetes."),
     \* 26 letters, and 51 characters with the spaces between them
     Chars("a b c d e f g h i j k l m n o p q r s t u v w x y z")}

DocumentTexts ==
    {first \o <<"\n">> \o contact \o <<"\n">> \o body :
        first \in FirstLines, contact \in ContactLines, body \in Bodies}

(***************************************************************************)
(* NLPExtractor.extract_information                                        *)
(***************************************************************************)
\* the fields whose rules read nothing but the text
TextRules(text) ==
    [email |-> _extract_email(text),
     phone |-> _extract_phone(text),
     skills |-> _extract_skills(text),
     experience_years |-> _extract_experience_years(text),
     education |-> _extract_education(text),
     certifications |-> _extract_certifications(text)]

\* TextRules, evaluated once for each text of the model
CleanedDocumentTexts == {_clean_text(t) : t \in DocumentTexts}
TextRulesOfDocuments == [text \in CleanedDocumentTexts |-> TextRules(text)]
RulesOf(text) ==
    IF text \in CleanedDocumentTexts THEN TextRulesOfDocuments[text]
    ELSE TextRules(text)

\* name_doc: what self.nlp(cleaned_text[:500]) gives; org_doc: what
\* self.nlp(cleaned_text) gives
extract_information(text, recognizer, name_doc, org_doc) ==
    LET cleaned_text == _clean_text(text)
    IN  [name |-> _extract_name(cleaned_text, recognizer, name_doc),
         organizations |-> IF recognizer # "None"
                           THEN _extract_organizations(cleaned_text, recognizer, org_doc)
                           ELSE {}]
        \* email, phone, skills, experience_years, education, certifications
        @@ RulesOf(cleaned_text)

\* the texts extract_information passes to the recognizer: none without a
\* recognizer (lines 85, 99, 255), otherwise the first 500 characters for the
\* name (line 103) and the whole text for the organizations (line 259)
recognizer_calls(text, recognizer) ==
    IF recognizer = "None" THEN <<>>
    ELSE <<Prefix(_clean_text(text), 500), _clean_text(text)>>

(***************************************************************************)
(* ResumeProcessor._extract_text and the readers.  An uploaded file is its *)
(* name, its extension, its type, the text its content decodes to, and     *)
(* whether the reader of its format fails on it.                           *)
(***************************************************************************)
Raised == [raised |-> TRUE]
Returned(value) == [raised |-> FALSE, value |-> value]

_extract_text(uploaded_file) ==
    CASE uploaded_file.extension = "pdf" ->
            \* PyPDF2, and the content decoded as it is when PyPDF2 fails
            IF uploaded_file.reader_fails THEN Returned(uploaded_file.text)
            ELSE Returned(Strip(uploaded_file.text))
      [] uploaded_file.extension \in {"docx", "txt"} ->
            IF uploaded_file.reader_fails THEN Raised
            ELSE Returned(Strip(uploaded_file.text))
      [] OTHER -> Raised      \* Unsupported file format

(***************************************************************************)
(* ResumeProcessor.process_resume: what it returns (None or the record),   *)
(* and whether it ran extract_information.                                 *)
(***************************************************************************)
None == [none |-> TRUE]

process_resume(uploaded_file, recognizer, name_doc, org_doc) ==
    LET text == _extract_text(uploaded_file)
    IN  IF text.raised THEN [ret |-> None, extracted |-> FALSE]    \* except Exception
        ELSE IF text.value = <<>> \/ Len(Strip(text.value)) < 50
        THEN [ret |-> None, extracted |-> FALSE]
        ELSE [ret |-> extract_information(text.value, recognizer, name_doc, org_doc)
                      @@ [raw_text |-> text.value, file_type |-> uploaded_file.type],
              extracted |-> TRUE]

(***************************************************************************)
(* The extractor and the processor: NLPExtractor.__init__ has loaded the   *)
(* recognizer or, on OSError, has set nlp to None.                         *)
(***************************************************************************)
MaxEnts == 1    \* a document of the recognizer has 0 .. MaxEnts entities

\* the entities the recognizer may find in a text: its first two words or its
\* first word as a person, its first two words as an organization
Entities(text) ==
    LET words == Words(text)
        two == IF Len(words) >= 2 THEN {words[1] \o <<" ">> \o words[2]} ELSE {}
        one == IF Len(words) >= 1 THEN {words[1]} ELSE {}
    IN  {[text |-> t, label_ |-> "PERSON"] : t \in two \cup one}
        \cup {[text |-> t, label_ |-> "ORG"] : t \in two}

\* what a call of the recognizer on a text may give
Outcomes(text) == {Raises} \cup {Doc(ents) : ents \in SeqsUpTo(Entities(text), MaxEnts)}

UploadedFiles ==
    [name : {"cv"}, extension : {"pdf", "txt", "doc"}, type : {"file"},
     text : DocumentTexts, reader_fails : BOOLEAN]

ExtractInformation ==
    /\ call = NoCall
    /\ nlp # NotConstructed
    /\ \E text \in DocumentTexts :
        \E name_doc \in Outcomes(Prefix(_clean_text(text), 500)),
           org_doc \in Outcomes(_clean_text(text)) :
            call' = [fn |-> "extract_information", text |-> text,
                     name_doc |-> name_doc, org_doc |-> org_doc,
                     nlp_calls |-> recognizer_calls(text, nlp),
                     ret |-> extract_information(text, nlp, name_doc, org_doc)]
    /\ UNCHANGED <<weights, nonneg, app>>

ProcessResume ==
    /\ call = NoCall
    /\ nlp # NotConstructed
    /\ \E uploaded_file \in UploadedFiles :
        \E name_doc \in Outcomes(Prefix(_clean_text(uploaded_file.text), 500)),
           org_doc \in Outcomes(_clean_text(uploaded_file.text)) :
            call' = [fn |-> "process_resume", uploaded_file |-> uploaded_file,
                     name_doc |-> name_doc, org_doc |-> org_doc]
                    @@ process_resume(uploaded_file, nlp, name_doc, org_doc)
    /\ UNCHANGED <<weights, nonneg, app>>

InitExtract ==
    /\ weights = DefaultWeights
    /\ nonneg = TRUE
    /\ call = NoCall
    /\ nlp \in {_load_spacy_model(outcome) : outcome \in {"loaded", "OSError"}}
    /\ processed_resumes = <<>>
    /\ session_job_requirements = create_sample_job_requirements

NextExtract == ExtractInformation \/ ProcessResume \/ Return

SpecExtract == InitExtract /\ [][NextExtract]_vars

(***************************************************************************)
(* The rules of the extractor as functions of a text: a call is drawn with *)
(* its text and evaluated once.                                            *)
(***************************************************************************)
MaxTextLen == 5     \* _clean_text is applied to texts of 0 .. MaxTextLen characters

\* every text of at most MaxTextLen characters over two letters and the three
\* kinds of white space
ShortTexts == SeqsUpTo({"a", "b", " ", "\n", "\t"}, MaxTextLen)

CleanCalls ==
    {[fn |-> "_clean_text", text |-> t, done |-> FALSE, ret |-> <<>>] : t \in ShortTexts}

Eval_clean_text ==
    /\ call.fn = "_clean_text" /\ ~call.done
    /\ call' = [call EXCEPT !.done = TRUE, !.ret = _clean_text(call.text)]
    /\ UNCHANGED <<weights, nonneg, app>>

\* the texts of the other rules: 0 .. MaxPhrases phrases with a space between
\* them
MaxPhrases == 2

RECURSIVE JoinPhrases(_)
JoinPhrases(phrases) ==
    IF phrases = <<>> THEN <<>>
    ELSE IF Len(phrases) = 1 THEN phrases[1]
    ELSE phrases[1] \o <<" ">> \o JoinPhrases(Tail(phrases))

TextsOf(phrases) == {JoinPhrases(ps) : ps \in SeqsUpTo(phrases, MaxPhrases)}

SkillPhrases ==
    {Chars("Python"), Chars("python PYTHON"), Chars("c++"), Chars("javascript"),
     Chars("R/D"), Chars("Machine Learning, SQL")}
EducationPhrases ==
    {Chars("high school"), Chars("Secondary"), Chars("Certificate"), Chars("B.S"),
     Chars("PhD"), Chars("none")}
ManyJobs ==
    Chars("worked at A, employed at B, position at C, role at D, job at E, worked at F, role at G, job at H")
ExperiencePhrases ==
    {Chars("60 years of experience"), Chars("2.5 years of experience"),
     Chars("Experience: 7+ yrs"), Chars("50 yrs in"), Chars("worked at"), ManyJobs}

SkillCalls ==
    {[fn |-> "_extract_skills", text |-> t, done |-> FALSE, ret |-> <<>>] :
        t \in TextsOf(SkillPhrases)}
EducationTextCalls ==
    {[fn |-> "_extract_education", text |-> t, done |-> FALSE, ret |-> <<>>] :
        t \in TextsOf(EducationPhrases)}
ExperienceTextCalls ==
    {[fn |-> "_extract_experience_years", text |-> t, done |-> FALSE, ret |-> <<>>] :
        t \in TextsOf(ExperiencePhrases)}

Eval_extract_skills ==
    /\ call.fn = "_extract_skills" /\ ~call.done
    /\ call' = [call EXCEPT !.done = TRUE, !.ret = _extract_skills(call.text)]
    /\ UNCHANGED <<weights, nonneg, app>>

Eval_extract_education ==
    /\ call.fn = "_extract_education" /\ ~call.done
    /\ call' = [call EXCEPT !.done = TRUE, !.ret = _extract_education(call.text)]
    /\ UNCHANGED <<weights, nonneg, app>>

Eval_extract_experience_years ==
    /\ call.fn = "_extract_experience_years" /\ ~call.done
    /\ call' = [call EXCEPT !.done = TRUE, !.ret = _extract_experience_years(call.text)]
    /\ UNCHANGED <<weights, nonneg, app>>

InitText ==
    /\ weights = DefaultWeights
    /\ nonneg = TRUE
    /\ SessionStart
    /\ call \in CleanCalls \cup SkillCalls \cup EducationTextCalls \cup ExperienceTextCalls

NextText ==
    \/ Eval_clean_text
    \/ Eval_extract_skills
    \/ Eval_extract_education
    \/ Eval_extract_experience_years

SpecText == InitText /\ [][NextText]_vars

(***************************************************************************)
(* Properties of the text rules (SpecText).                                *)
(***************************************************************************)
\* no leading or trailing white space, and no white space other than single
\* spaces between runs of other characters
IsNormalised(text) ==
    /\ \A i \in 1 .. Len(text) : IsSpace(text[i]) =>
          /\ text[i] = " "
          /\ 1 < i /\ i < Len(text)
          /\ ~IsSpace(text[i - 1]) /\ ~IsSpace(text[i + 1])

\* C20: text normalisation is idempotent, _clean_text(_clean_text(t)) =
\* _clean_text(t), and its result has no leading or trailing white space and no
\* white space character other than single spaces between non-white-space runs.
C20_CleanTextIdempotent ==
    Evaluated("_clean_text") =>
        /\ _clean_text(call.ret) = call.ret
        /\ IsNormalised(call.ret)

\* a text with leading and repeated white space of several kinds
C20_Witness ==
    /\ Evaluated("_clean_text")
    /\ call.text = <<"\n", "a", "\t", " ", "b">>
    /\ call.ret = <<"a", " ", "b">>


(***************************************************************************)
(* Properties of the extractor and of the processor (SpecExtract).         *)
(***************************************************************************)
IsExtraction == call.fn = "extract_information"
IsProcessing == call.fn = "process_resume"

\* the text of the first phone number in a text: what the first pattern that
\* matches anything matched first
RECURSIVE FirstPhoneNumber(_, _)
FirstPhoneNumber(k, text) ==
    IF k > Len(phone_patterns) THEN <<>>
    ELSE LET numbers == FindAll(phone_patterns[k], text)
         IN  IF numbers # <<>> THEN numbers[1] ELSE FirstPhoneNumber(k + 1, text)

\* C13: the phone, the email and the name of a record extract_information
\* returns are never empty: each is the text that matched (for the phone, the
\* phone number found by the first pattern that matches) or the sentinel of its
\* field.
C13_ContactFieldsNeverEmpty ==
    IsExtraction =>
        LET number == FirstPhoneNumber(1, _clean_text(call.text))
        IN  /\ call.ret.name # <<>>
            /\ call.ret.email # <<>>
            /\ call.ret.phone # <<>>
            /\ call.ret.phone = IF number # <<>> THEN number ELSE Chars("Phone not found")

\* the characters of a text that are not white space
NonWhitespace(text) == Cardinality({i \in 1 .. Len(text) : ~IsSpace(text[i])})

\* C14: a document whose recoverable text has fewer than 50 characters that are
\* not white space is rejected: process_resume returns no record for it and
\* does not run extract_information on it.
C14_ShortTextRejected ==
    (IsProcessing /\ NonWhitespace(call.uploaded_file.text) < 50) =>
        call.ret = None /\ ~call.extracted

\* the fields of a record of extract_information
Fields ==
    {"name", "email", "phone", "skills", "experience_years", "education",
     "certifications", "organizations"}

\* a document of the recognizer with no entity
NothingFound == Doc(<<>>)

\* C15: when the recognizer raises inside a rule of extract_information, only
\* the field of that rule falls back (the name to the heuristic, the
\* organizations to the empty list): every other field is what it is when the
\* recognizer finds nothing there instead of raising, and process_resume
\* still returns a record for the document.
C15_RuleFailureIsolated ==
    /\ (IsExtraction /\ nlp # "None") =>
          LET cleaned_text == _clean_text(call.text)
              other == extract_information(
                           call.text, nlp,
                           IF call.name_doc.raises THEN NothingFound ELSE call.name_doc,
                           IF call.org_doc.raises THEN NothingFound ELSE call.org_doc)
          IN  /\ call.name_doc.raises =>
                    call.ret.name = _extract_name_fallback(cleaned_text)
              /\ call.org_doc.raises => call.ret.organizations = {}
              /\ DOMAIN call.ret = Fields
              /\ call.ret = other
    /\ (IsProcessing /\ nlp # "None" /\ call.extracted) =>
          /\ call.ret # None
          /\ call.ret.raw_text = _extract_text(call.uploaded_file).value

\* the recognizer raises on the name and finds an organization: the name comes
\* from the first line, the organization is kept
C15_Witness ==
    /\ IsExtraction
    /\ nlp = "model"
    /\ call.name_doc.raises /\ ~call.org_doc.raises
    /\ call.ret.name = Chars("John Doe")
    /\ call.ret.organizations = {Chars("John Doe")}
    /\ call.ret.phone = Chars("Phone not found")

\* C16: when the recognizer failed to load the extractor is constructed all
\* the same and extract_information returns a complete record, with no
\* organization and with the name of the heuristic fallback, without calling
\* the recognizer.
C16_DegradesWithoutRecognizer ==
    /\ nlp # NotConstructed
    /\ (IsExtraction /\ nlp = "None") =>
          /\ DOMAIN call.ret = Fields
          /\ call.ret.organizations = {}
          /\ call.ret.name = _extract_name_fallback(_clean_text(call.text))
          /\ call.nlp_calls = <<>>

\* no recognizer: the name is the first line found by the heuristic and there
\* is no organization, whatever a recognizer would have found
C16_Witness ==
    /\ IsExtraction
    /\ nlp = "None"
    /\ call.name_doc = Doc(<<[text |-> Chars("John"), label_ |-> "PERSON"]>>)
    /\ call.org_doc = Doc(<<[text |-> Chars("John Doe"), label_ |-> "ORG"]>>)
    /\ call.ret.name = Chars("John Doe")
    /\ call.ret.organizations = {}

(***************************************************************************)
(* The session of app.py: the sidebar that sets the job requirements and   *)
(* process_uploaded_resumes.                                               *)
(***************************************************************************)
\* a run is taken when its upload leaves at most MaxProcessed documents
\* uploaded in the session
MaxProcessed == 2

suggested_skills ==
    <<Chars("Python"), Chars("JavaScript"), Chars("SQL"), Chars("Git"),
      Chars("Machine Learning"), Chars("React"), Chars("Django"), Chars("AWS"),
      Chars("Docker"), Chars("Communication"), Chars("Problem Solving")>>

\* what the user selects in the multiselect: "Python" alone, or its default
\* ("Python", "Machine Learning", "SQL", "Git", "Communication")
Selections ==
    {<<suggested_skills[1]>>,
     <<suggested_skills[1], suggested_skills[5], suggested_skills[3],
       suggested_skills[4], suggested_skills[10]>>}

\* what the user types in 'Additional custom skills'
CustomSkillInputs == {<<>>, Chars(" python , ,Docker")}

\* the minimum of the number_input (0 to 20, an int) and of the selectbox
ExperienceInputs == {Whole(2)}
EducationInputs == {"High School", "PhD"}

\* lines 212-214: the custom skills, stripped, follow the selected ones
selected_skills(selection, custom_skills) ==
    IF custom_skills = <<>> THEN selection
    ELSE LET parts == SplitOn(custom_skills, ",")
         IN  selection
             \o [i \in 1 .. Len(SelectSeq(parts, LAMBDA skill : Strip(skill) # <<>>)) |->
                    Strip(SelectSeq(parts, LAMBDA skill : Strip(skill) # <<>>)[i])]

\* lines 223-229: the job requirements the button stores
update_job_requirements(job_title, selection, custom_skills, experience_years, education_level) ==
    LET skills == selected_skills(selection, custom_skills)
    IN  [job_title |-> job_title,
         required_skills |-> [i \in 1 .. Len(skills) |-> Lower(Strip(skills[i]))],
         experience_years |-> experience_years,
         education_level |-> education_level]

(***************************************************************************)
(* process_uploaded_resumes.  One document of the loop (lines 339-366):    *)
(* process_resume, then score_resume and the record when it gave data;     *)
(* "failed" is the st.error of line 364, "error" that of line 367.  The    *)
(* processed_at of the record is the time of the clock and is left out.    *)
(***************************************************************************)
\* lines 354-362: the record that is appended
resume_data(uploaded_file, extracted_data, score_data) ==
    IF score_data = ValueError THEN [outcome |-> "error"]
    ELSE [outcome |-> "appended",
          resume_data |-> score_data @@ extracted_data
                          @@ [filename |-> uploaded_file.name]]

\* lines 345-364: what follows process_resume
score_document(uploaded_file, extracted_data, job_requirements, w) ==
    IF extracted_data = None THEN [outcome |-> "failed"]
    ELSE resume_data(uploaded_file, extracted_data,
                     score_resume(w, extracted_data, job_requirements))

process_document(uploaded_file, recognizer, doc, job_requirements, w) ==
    score_document(uploaded_file, process_resume(uploaded_file, recognizer, doc, doc).ret,
                   job_requirements, w)

\* the files of an upload: a text file whose text is long enough, one whose
\* text is too short, one that cannot be decoded, and a file of a format that
\* is not supported
ShortText ==
    Chars("John Doe") \o <<"\n">> \o Chars("+1 555-123-4567 john@x.org") \o <<"\n">>
LongText ==
    ShortText
    \o Chars("5 years of experience in Python and SQL. Master of Science. Certified in Kubernetes.")
SessionFiles ==
    {f \in UploadedFiles :
        \/ f.extension = "txt" /\ ~f.reader_fails /\ f.text \in {ShortText, LongText}
        \/ f.extension = "txt" /\ f.reader_fails /\ f.text = LongText
        \/ f.extension = "doc" /\ ~f.reader_fails /\ f.text = LongText}
SessionOutcomes == {Raises, Doc(<<>>)}

\* the job requirements a session can hold
SessionJobs ==
    {create_sample_job_requirements}
    \cup {update_job_requirements("Software Engineer", selection, custom_skills,
                                  experience_years, education_level) :
            selection \in Selections, custom_skills \in CustomSkillInputs,
            experience_years \in ExperienceInputs, education_level \in EducationInputs}

\* process_document, evaluated once for each document of the model (@@ makes
\* the function an explicit one)
SessionDocuments == SessionFiles \X {"model", "None"} \X SessionOutcomes \X SessionJobs
DocumentsOfSession ==
    [document \in SessionDocuments |->
        process_document(document[1], document[2], document[3], document[4],
                         DefaultWeights)] @@ <<>>
DocumentOf(uploaded_file, recognizer, doc, job_requirements, w) ==
    IF /\ w = DefaultWeights
       /\ <<uploaded_file, recognizer, doc, job_requirements>> \in SessionDocuments
    THEN DocumentsOfSession[<<uploaded_file, recognizer, doc, job_requirements>>]
    ELSE process_document(uploaded_file, recognizer, doc, job_requirements, w)

\* the records of the documents that were appended, in their order
AppendedOf(documents) ==
    LET kept == SelectSeq(documents, LAMBDA d : d.outcome = "appended")
    IN  [i \in 1 .. Len(kept) |-> kept[i].resume_data]

\* what a run leaves, given what became of each document it went through
RunOf(documents, total_files) ==
    [outcomes |-> [i \in 1 .. Len(documents) |-> documents[i].outcome],
     appended |-> AppendedOf(documents),
     processed_count |->
        Cardinality({i \in 1 .. Len(documents) : documents[i].outcome = "appended"}),
     total_files |-> total_files]

\* the documents up to the first one that is not appended
UpToFirstFailure(documents) ==
    IF documents = <<>> THEN <<>>
    ELSE SubSeq(documents, 1,
                CHOOSE last \in 1 .. Len(documents) :
                    /\ \A i \in 1 .. last - 1 : documents[i].outcome = "appended"
                    /\ last = Len(documents) \/ documents[last].outcome # "appended")

\* a loop that ends at the first document that is not appended
process_uploaded_resumes_aborting(uploaded_files, recognizer, docs, job_requirements, w) ==
    RunOf(UpToFirstFailure([i \in 1 .. Len(uploaded_files) |->
                               DocumentOf(uploaded_files[i], recognizer, docs[i],
                                          job_requirements, w)]),
          Len(uploaded_files))

\* docs[i]: what the recognizer gives on the text of uploaded_files[i]
process_uploaded_resumes(uploaded_files, recognizer, docs, job_requirements, w) ==
    RunOf([i \in 1 .. Len(uploaded_files) |->
              DocumentOf(uploaded_files[i], recognizer, docs[i], job_requirements, w)],
          Len(uploaded_files))

\* a button that also scores the records again, against the new requirements
UpdateJobRequirements_rescoring ==
    /\ call = NoCall
    /\ \E selection \in Selections, custom_skills \in CustomSkillInputs,
          experience_years \in ExperienceInputs, education_level \in EducationInputs :
        session_job_requirements' =
            update_job_requirements("Software Engineer", selection, custom_skills,
                                    experience_years, education_level)
    /\ processed_resumes' =
        [i \in 1 .. Len(processed_resumes) |->
            score_resume(weights, processed_resumes[i], session_job_requirements')
            @@ processed_resumes[i]]
    /\ UNCHANGED <<weights, nonneg, call, nlp>>

UpdateJobRequirements ==
    /\ call = NoCall
    /\ \E selection \in Selections, custom_skills \in CustomSkillInputs,
          experience_years \in ExperienceInputs, education_level \in EducationInputs :
        session_job_requirements' =
            update_job_requirements("Software Engineer", selection, custom_skills,
                                    experience_years, education_level)
    /\ UNCHANGED <<weights, nonneg, call, nlp, processed_resumes>>

\* ResumeProcessor() constructs the extractor: the recognizer is loaded at the
\* first construction and is the cached one afterwards (st.cache_resource)
ProcessUploadedResumes ==
    /\ call = NoCall
    /\ \E uploaded_files \in
            SeqsUpTo(SessionFiles, MaxProcessed - Len(processed_resumes)) \ {<<>>} :
        \E docs \in [1 .. Len(uploaded_files) -> SessionOutcomes],
           outcome \in IF nlp = NotConstructed THEN {"loaded", "OSError"}
                       ELSE {"cached"} :
            /\ nlp' = IF nlp = NotConstructed THEN _load_spacy_model(outcome) ELSE nlp
            /\ \E run \in {process_uploaded_resumes(uploaded_files, nlp', docs,
                                                     session_job_requirements, weights)} :
                /\ processed_resumes' = processed_resumes \o run.appended
                /\ call' = [fn |-> "process_uploaded_resumes",
                            uploaded_files |-> uploaded_files, docs |-> docs,
                            held |-> Len(processed_resumes),
                            outcomes |-> run.outcomes,
                            processed_count |-> run.processed_count,
                            total_files |-> run.total_files]
    /\ UNCHANGED <<weights, nonneg, session_job_requirements>>

NextSession == UpdateJobRequirements \/ ProcessUploadedResumes \/ Return

SpecSession == Init /\ [][NextSession]_vars

IsRun == call.fn = "process_uploaded_resumes"

\* the records processed_resumes holds beyond those it held when the run began
OfThisRun == SubSeq(processed_resumes, call.held + 1, Len(processed_resumes))

\* the document at position i of the upload of the run, taken by itself
DocumentAlone(i) ==
    DocumentOf(call.uploaded_files[i], nlp, call.docs[i],
               session_job_requirements, weights)

\* the records of the documents of the run that were processed successfully
RecordsOfTheRun ==
    AppendedOf([i \in 1 .. Len(call.uploaded_files) |-> DocumentAlone(i)])

\* C17: after each run of process_uploaded_resumes, processed_resumes holds
\* exactly the records of the documents of that run that were processed
\* successfully, and none from an earlier run.
C17_OnlyRecordsOfTheRun ==
    (call # NoCall /\ IsRun) => processed_resumes = RecordsOfTheRun

\* C18: a failure on one document never aborts the batch: every document of
\* the upload has exactly one outcome, the one it has when it is processed by
\* itself; the records appended are those of the successful documents, in the
\* order of the upload, and as many as the reported count of successes.
C18_FailureDoesNotAbortBatch ==
    (call # NoCall /\ IsRun) =>
        /\ Len(call.outcomes) = Len(call.uploaded_files)
        /\ call.total_files = Len(call.uploaded_files)
        /\ \A i \in 1 .. Len(call.uploaded_files) :
            /\ call.outcomes[i] \in {"appended", "failed", "error"}
            /\ call.outcomes[i] = DocumentAlone(i).outcome
        /\ OfThisRun = RecordsOfTheRun
        /\ Len(OfThisRun) = call.processed_count

\* a run whose first document failed and whose second document was appended
C18_Witness ==
    /\ call # NoCall
    /\ IsRun
    /\ call.outcomes = <<"failed", "appended">>
    /\ call.processed_count = 1
    /\ Len(processed_resumes) = call.held + 1

\* C19: after session start and after any sequence of 'Update Job
\* Requirements' actions, required_skills contains only lower-case, trimmed,
\* non-empty strings and contains no string twice.
C19_RequiredSkillsNormalisedAndUnique ==
    LET skills == session_job_requirements.required_skills
    IN  /\ \A i \in 1 .. Len(skills) :
            /\ skills[i] = Lower(skills[i])
            /\ skills[i] = Strip(skills[i])
            /\ skills[i] # <<>>
        /\ \A i, j \in 1 .. Len(skills) : skills[i] = skills[j] => i = j

(***************************************************************************)
(* adjust_weights with a negative argument (Spec).                         *)
(***************************************************************************)
\* the sum of the arguments that are not negative
NonNegativeSum(args) ==
    (IF args[1] > 0 THEN args[1] ELSE 0) + (IF args[2] > 0 THEN args[2] ELSE 0)
    + (IF args[3] > 0 THEN args[3] ELSE 0)

WeightOf(w, i) == IF i = 1 THEN w.skills ELSE IF i = 2 THEN w.experience ELSE w.education

\* C29: adjust_weights does not check the sign of its arguments: when one
\* argument is negative and the three sum to a positive number it stores each
\* argument divided by the sum, so a weight below 0 and another above its share
\* of the non-negative arguments, the three still summing to 1; when the three
\* sum to a negative number the call changes nothing.  (That score_resume can
\* then report a total_score outside [0, 100] is what C29_Witness reaches.)
C29_SignOfArgumentsNotChecked ==
    [][(call = NoCall /\ call'.fn = "adjust_weights") =>
        /\ (ArgSum(call'.args) > 0 /\ \E i \in 1 .. 3 : call'.args[i] < 0) =>
            /\ \A i \in 1 .. 3 :
                 WeightOf(weights', i) = Frac(call'.args[i], ArgSum(call'.args))
            /\ \E i \in 1 .. 3 : RLt(WeightOf(weights', i), Whole(0))
            /\ \E i \in 1 .. 3 :
                 RLt(Frac(call'.args[i], NonNegativeSum(call'.args)), WeightOf(weights', i))
            /\ RAdd(weights'.skills, RAdd(weights'.experience, weights'.education)) = Whole(1)
        /\ ArgSum(call'.args) < 0 => weights' = weights]_vars

\* after adjust_weights with a negative argument, a record whose total_score
\* is below 0
C29_Witness ==
    /\ IsScored
    /\ RLt(weights.skills, Whole(0))
    /\ RAdd(weights.skills, RAdd(weights.experience, weights.education)) = Whole(1)
    /\ RLt(call.ret.total_score, Whole(0))

(***************************************************************************)
(* One more skill on the resume (SpecPure).                                *)
(***************************************************************************)
\* the skill that is added: one that is similar to a required "sql", one that
\* is equal to it; with neither required, they bring nothing but the bonus
AddedSkills == {Chars("Mysql"), Chars("SQL")}

\* weights that are not negative
SomeWeights ==
    {DefaultWeights,
     [skills |-> Whole(1), experience |-> Whole(0), education |-> Whole(0)],
     [skills |-> Whole(0), experience |-> Frac(1, 2), education |-> Frac(1, 2)],
     [skills |-> Frac(1, 3), experience |-> Frac(1, 3), education |-> Frac(1, 3)]}

\* the fields score_resume reads besides the skills
OtherFields == [experience_years |-> Whole(1), education |-> "Bachelor's Degree"]
OtherRequirements == [experience_years |-> Whole(2), education_level |-> "PhD"]

\* the total_score of score_resume for a skills score, the other fields fixed
TotalScoreWith(w, skills_score) ==
    Round1(WeightedTotal(w, skills_score,
                         _score_experience(OtherFields, OtherRequirements),
                         _score_education(OtherFields, OtherRequirements)))

\* C30: for a fixed job profile, adding one more skill to a candidate's skill
\* list never lowers the skills score computed by _score_skills, and with
\* non-negative weights and the other fields unchanged it never lowers the
\* total_score of score_resume.
C30_OneMoreSkillNeverLowers ==
    Evaluated("_score_skills") =>
        \A skill \in AddedSkills :
            \E more \in {_score_skills([skills |-> Append(call.resume_data.skills, skill)],
                                       call.job_requirements)} :
                /\ RLe(call.ret, more)
                /\ \A w \in SomeWeights :
                     RLe(TotalScoreWith(w, call.ret), TotalScoreWith(w, more))

\* ten skills, none of them required: the eleventh brings a fuzzy match and the
\* bonus, or the required skill
C30_Witness ==
    /\ Evaluated("_score_skills")
    /\ call.resume_data.skills = TenSkills
    /\ call.job_requirements.required_skills = <<Chars("sql")>>
    /\ call.ret = Whole(0)
    /\ _score_skills([skills |-> Append(TenSkills, Chars("Mysql"))],
                     call.job_requirements) = Whole(60)
    /\ _score_skills([skills |-> Append(TenSkills, Chars("SQL"))],
                     call.job_requirements) = Whole(100)

(***************************************************************************)
(* 'Update Job Requirements' and the records already processed             *)
(* (SpecSession).                                                          *)
(***************************************************************************)
\* the fields of a record that score_resume wrote
ScoreFields(record) ==
    [total_score |-> record.total_score, skills_score |-> record.skills_score,
     experience_score |-> record.experience_score,
     education_score |-> record.education_score,
     matched_skills |-> record.matched_skills, missing_skills |-> record.missing_skills]

\* the same fields, were the record scored against job_requirements
ScoredAgainst(record, job_requirements) ==
    ScoreFields(score_resume(weights, record, job_requirements))

\* C28: 'Update Job Requirements' replaces only the session's
\* job_requirements: whenever the job requirements change, the records in
\* processed_resumes and the engine's weights (and the extractor) are left
\* as they are, and a later run keeps the records it finds, so the list can
\* hold records scored against different job profiles (C28_Witness).
C28_UpdateLeavesRecordsAndWeights ==
    [][/\ session_job_requirements' # session_job_requirements =>
            /\ processed_resumes' = processed_resumes
            /\ weights' = weights
            /\ nlp' = nlp
            /\ call' = call
       /\ Len(processed_resumes') >= Len(processed_resumes)
       /\ SubSeq(processed_resumes', 1, Len(processed_resumes)) = processed_resumes]_vars

\* two records of the same document, the first scored against the sample
\* requirements of the session start and the second against the updated ones
C28_Witness ==
    /\ Len(processed_resumes) = 2
    /\ session_job_requirements # create_sample_job_requirements
    /\ processed_resumes[1].filename = processed_resumes[2].filename
    /\ processed_resumes[1].skills = processed_resumes[2].skills
    /\ processed_resumes[1].total_score # processed_resumes[2].total_score
    /\ ScoreFields(processed_resumes[1])
         = ScoredAgainst(processed_resumes[1], create_sample_job_requirements)
    /\ ScoreFields(processed_resumes[1])
         # ScoredAgainst(processed_resumes[1], session_job_requirements)
    /\ ScoreFields(processed_resumes[2])
         = ScoredAgainst(processed_resumes[2], session_job_requirements)

(***************************************************************************)
(* The rules of the extractor on a text (SpecText, SpecExtract).           *)
(***************************************************************************)
\* the first 5 lines of a document
FirstFiveLines(text) ==
    LET all == SplitOn(text, "\n")
    IN  [k \in 1 .. (IF Len(all) < 5 THEN Len(all) ELSE 5) |-> Strip(all[k])]

\* the recognizer is unavailable, or fails, or finds no person of two words
NoPersonFound ==
    \/ nlp = "None"
    \/ call.name_doc = Raises
    \/ \A k \in DOMAIN call.name_doc.ents :
          \/ call.name_doc.ents[k].label_ # "PERSON"
          \/ Len(Words(call.name_doc.ents[k].text)) < 2

\* C22: when the entity recognizer is unavailable or finds no person,
\* extract_information sets name to the first of the first 5 lines of the
\* document that has 2 to 4 alphabetic tokens and is under 50 characters,
\* whatever text follows that line, and to 'Name not found' only when none of
\* the first 5 lines qualifies.
C22_NameIsFirstQualifyingLine ==
    (IsExtraction /\ NoPersonFound) =>
        LET lines == FirstFiveLines(call.text)
            names == {k \in 1 .. Len(lines) : IsNameLine(lines[k])}
        IN  call.ret.name = IF names = {} THEN Chars("Name not found")
                            ELSE lines[CHOOSE k \in names : \A j \in names : k <= j]

\* the levels of the education keywords found in a text
LevelsFound(text) ==
    {education_keywords[k][2] :
        k \in {j \in DOMAIN education_keywords :
                  Contains(Lower(text), Chars(education_keywords[j][1]))}}

LevelLabels ==
    <<"Certificate/Diploma", "Bachelor's Degree", "Master's Degree", "PhD">>

\* C23: _extract_education returns the label of the maximum level among the
\* education keywords found in the text (0 'High School', 1
\* 'Certificate/Diploma', 2 "Bachelor's Degree", 3 "Master's Degree", 4 'PhD')
\* and 'Not specified' only when no keyword is found: a text whose only
\* keywords are of level 0 yields 'High School'.
C23_EducationIsHighestLevelFound ==
    Evaluated("_extract_education") =>
        LET levels == LevelsFound(call.text)
            highest == CHOOSE level \in levels : \A other \in levels : other <= level
        IN  call.ret = IF levels = {} THEN "Not specified"
                       ELSE IF highest = 0 THEN "High School"
                       ELSE LevelLabels[highest]

\* the numbers the patterns match in a text
MatchedNumbers(text) ==
    {ParseFloat(match) :
        match \in UNION {Range(FindAllGroup(experience_patterns[k], Lower(text))) :
                            k \in DOMAIN experience_patterns}}

\* the occurrences of the job-indicator phrases in a text
JobIndicatorCount(text) ==
    Cardinality({at \in (DOMAIN job_indicators) \X (1 .. Len(text)) :
        /\ at[2] + Len(job_indicators[at[1]]) - 1 <= Len(text)
        /\ SubSeq(Lower(text), at[2], at[2] + Len(job_indicators[at[1]]) - 1)
             = job_indicators[at[1]]})

\* C24: _extract_experience_years returns the maximum of the pattern-matched
\* numbers that lie in [0, 50] when there is at least one; otherwise
\* min(2 * count of job-indicator phrases, 15) when the count is positive;
\* otherwise 0.  The result is a number in [0, 50], and matched numbers above
\* 50 do not influence it.
C24_ExperienceYears ==
    Evaluated("_extract_experience_years") =>
        LET in_range == {q \in MatchedNumbers(call.text) :
                            RLe(Whole(0), q) /\ RLe(q, Whole(50))}
            count == JobIndicatorCount(call.text)
        IN  /\ in_range # {} =>
                call.ret \in in_range /\ \A q \in in_range : RLe(q, call.ret)
            /\ (in_range = {} /\ count > 0) =>
                call.ret = Whole(IF 2 * count < 15 THEN 2 * count ELSE 15)
            /\ (in_range = {} /\ count = 0) => call.ret = Whole(0)
            /\ RLe(Whole(0), call.ret) /\ RLe(call.ret, Whole(50))

\* a matched number above 50 is passed over and the job indicators decide
C24_Witness ==
    /\ Evaluated("_extract_experience_years")
    /\ call.text = Chars("60 years of experience worked at")
    /\ MatchedNumbers(call.text) = {Whole(60)}
    /\ call.ret = Whole(2)

\* the term occurs in the text as a word of its own: no letter, digit or
\* underscore touches it
OccursIn(text, term) ==
    \E p \in 0 .. (Len(text) - Len(term)) :
        /\ SubSeq(text, p + 1, p + Len(term)) = term
        /\ p = 0 \/ text[p] \notin WordChars
        /\ p + Len(term) = Len(text) \/ text[p + Len(term) + 1] \notin WordChars

\* C25: the list _extract_skills produces never contains two entries equal
\* under case-insensitive comparison, is sorted, has at most 50 entries, and
\* contains a vocabulary term exactly when that term occurs in the text in any
\* letter case.
C25_SkillsAreTheTermsThatOccur ==
    Evaluated("_extract_skills") =>
        /\ \A i, j \in 1 .. Len(call.ret) :
              Lower(call.ret[i]) = Lower(call.ret[j]) => i = j
        /\ \A i \in 1 .. Len(call.ret) - 1 : StrLess(call.ret[i], call.ret[i + 1])
        /\ Len(call.ret) <= 50
        /\ \A k \in DOMAIN skill_keywords :
              (\E i \in 1 .. Len(call.ret) : Lower(call.ret[i]) = Chars(skill_keywords[k]))
              <=> OccursIn(Lower(call.text), Chars(skill_keywords[k]))


====
